---- MODULE Spec2Model ----
(***************************************************************************)
(* Life Grid (obsidian-life-grid): the paint-plan builder, the grid        *)
(* renderer's colour resolution, the spatial index, the age calculator,    *)
(* the minimap click protocol and the view life cycle.                     *)
(*                                                                         *)
(* Dates are JavaScript Date values at local midnight, held as             *)
(* [year, month (0-based, as getMonth), date]; the local time zone is      *)
(* taken to have no offset from UTC, so that new Date("YYYY-MM-DD") is     *)
(* local midnight of that day.  Date keys are the strings of the default   *)
(* format "YYYY-MM-DD", held as <<year, month 1..12, day>>: the fields     *)
(* are zero padded, so the string order used by the code is the            *)
(* lexicographic order of the tuple.  Colours are "#rrggbb" strings, held  *)
(* as <<r, g, b>>; <<>> is the absent (or empty, falsy) string.            *)
(***************************************************************************)
EXTENDS Integers, Sequences, FiniteSets, TLC

VARIABLES
    \* ---- createLifeGridSVG / LifeGridView.onOpen: one render pass
    pc,            \* position in the pass: "config", "build", "render", "done"
    config,        \* LifeGridRenderConfig of the pass
    i,             \* buildPaintArray: loop counter
    d,             \* buildPaintArray: loop date
    paintArray,    \* Array<YearPaint | DayPaint>
    ri,            \* renderMainGrid: number of paint items consumed
    row,           \* renderMainGrid: layout cursor
    col,
    clickableDays, \* ClickableDay[] (date, cx, cy, radius, color)
    spatialIndex,  \* SpatialIndex.index: bucket <<gridX, gridY>> -> ClickableDay[]
    cellSize,      \* SpatialIndex.cellSize
    dayToRect,     \* date key -> {cx, cy, radius}
    yearData,      \* renderMainGrid: the year headers laid out (row, col, year)
    dayInfo,       \* setupUIInteractions: result of the last getDayInfo(day)
    tooltipText,   \* textContent of the tooltip built for the hovered day
    nearby,        \* result of the last getNearbyCells(x, y), with its arguments
    \* ---- calculateAge
    birthDate,     \* the birth date
    targetDate,    \* the date the age is calculated for
    ageTenths,     \* ten times the value of the string calculateAge returned
    \* ---- setupMinimapInteractions: the click handler of one render pass
    now,              \* Date.now(), in ms
    lastClickedEvent, \* date key of the last recorded event click, <<>> for null
    lastClickTime,    \* time of the last recorded event click
    pendingOpens,     \* click handlers suspended at await leaf.openFile(file)
    tooltipDiv,       \* the minimap tooltip is attached
    scrolledTo,       \* date key of the last scrollWrapper.scrollTo target, <<>> if none
    clicks,           \* number of minimap clicks handled
    lastAction,       \* what the last minimap click did
    unhandled,        \* promise rejections no handler caught
    \* ---- LifeGridView: life cycle, window resize listeners, debounce timer
    viewState,        \* "new" after construction, "open", "closed" after onClose
    hasBirthday,       \* plugin.settings.birthday is set
    birthdayParses,   \* new Date(settings.birthday) is a valid date
    corruptPeriod,    \* settings.periods holds an entry without an end field
    content,          \* what the last onOpen left in the container
    rejections,       \* runs of onOpen whose promise rejected
    listeners,        \* resize listeners on window (each onOpen makes a new closure)
    resizeHandler,    \* this.resizeHandler: a listener, 0 for undefined
    resizeTimeout,    \* this.resizeTimeout: a timer id, 0 for undefined
    timers,           \* pending setTimeout timers: [id, due]
    timerCount,       \* timer ids handed out
    clock,            \* time of the view's event loop, in ms
    lastResize,       \* time of the last resize event still owed a re-render, -1 if none
    timerRenders,     \* re-renders started by a timer since the last resize event
    renders,          \* runs of onOpen
    docTooltips,      \* a tooltip of the view is attached to document.body
    staleRenders,     \* runs of onOpen started after onClose
    \* ---- LifeGridPlugin: the settings
    stored,           \* the data loadData() returns (data.json)
    settings,         \* plugin.settings, <<>> before loadSettings
    lastOp,           \* the last operation on the settings
    \* ---- getDailyNoteFilePath
    dailyNoteFolder,  \* the folder argument, a sequence of characters
    dateString,       \* the date argument, a sequence of characters
    filePath,         \* the path returned, <<"?">> before the call
    \* ---- the tooltip of the main grid (setupUIInteractions)
    pointer,          \* position of the last pointer event on the svg, <<>> if none
    lastEvent,        \* the last pointer event handled
    currentTooltip,   \* id of the element held by currentTooltip, 0 for null
    lastHoveredDay,   \* date key of the day last hovered, <<>> for null
    bodyTooltips,     \* grid tooltips attached to document.body: id -> position
    tooltipCount,     \* tooltip elements created
    \* ---- createMinimapSVG and setupMinimapInteractions: the geometry of the minimap
    minimapPeriods,   \* the bands recorded for hover and click
    periodRects,      \* the rectangles drawn for the periods
    minimapEventsWithPosition, \* the ticks of the events
    hoverY,           \* y of the last pointer move in the band column, -1 if none
    hoverBands,       \* indexes of the bands that pointer move hit
    \* ---- the mousedown handler of the main grid
    vaultFiles,       \* date keys of the daily notes in the vault
    dayToFilePath,    \* date keys with a file path in the lookup of the render pass
    createRequests,   \* date keys passed to vault.create during the pass, in order
    gridShown,        \* the leaf still shows the grid
    dayClicks,        \* mousedown events handled
    \* ---- creating a daily note and finding it again
    dailyNoteFormat,  \* the date format of the settings, a text
    clickedDay,       \* the day that was clicked, <<year, month, day>>
    foundNotes,       \* basenames the next render takes for daily notes
    \* ---- grouping the circles by colour
    css,              \* the values read from the style sheet
    dayColor,         \* the resolved fill colour of a day, a text
    colorKey,         \* the key of the group of the day
    pathAttributes    \* the attributes of the path drawn for the group

paintVars == <<pc, config, i, d, paintArray, ri, row, col, clickableDays, dayToRect,
              yearData, dayInfo, tooltipText>>
indexVars == <<spatialIndex, cellSize, nearby>>
ageVars == <<birthDate, targetDate, ageTenths>>
miniVars == <<now, lastClickedEvent, lastClickTime, pendingOpens, tooltipDiv, scrolledTo,
              clicks, lastAction, unhandled>>

settingVars == <<hasBirthday, birthdayParses, corruptPeriod>>
timerVars == <<resizeTimeout, timers, timerCount>>
debounceVars == <<clock, lastResize, timerRenders>>

viewVars == <<viewState, settingVars, listeners, resizeHandler, timerVars, debounceVars,
              renders, docTooltips, staleRenders, content, rejections>>

pluginVars == <<stored, settings, lastOp>>
pathVars == <<dailyNoteFolder, dateString, filePath>>
hoverVars == <<pointer, lastEvent, currentTooltip, lastHoveredDay, bodyTooltips, tooltipCount>>
drawVars == <<minimapPeriods, periodRects, minimapEventsWithPosition, hoverY, hoverBands>>
clickVars == <<vaultFiles, dayToFilePath, createRequests, gridShown, dayClicks>>
formatVars == <<dailyNoteFormat, clickedDay, foundNotes>>
batchVars == <<css, dayColor, colorKey, pathAttributes>>
helperVars == <<clickVars, formatVars, batchVars>>
utilVars == <<pluginVars, pathVars, hoverVars, drawVars, helperVars>>

vars == <<paintVars, indexVars, ageVars, miniVars, viewVars, utilVars>>

----------------------------------------------------------------------------
(* Bounds of the model *)

\* largest maxAge (years) of a modelled render pass
MaxAge == 1

\* most entries added to a spatial index on its own
MaxEntries == 2

\* most runs of onOpen of one view
MaxRenders == 3

\* most timers one view starts
MaxTimers == 6

\* longest time (ms) a view is observed
MaxClock == 500

\* most period entries the settings hold
MaxPeriods == 3

\* most minimap clicks of a modelled pass
MaxClicks == 4

\* longest time (ms) a modelled pass is observed
MaxTime == 1000

\* years after the birth year over which ages are calculated
MaxAgeYears == 25

\* largest x coordinate of an entry or query point of a spatial index on its own
MaxCoord == 2

----------------------------------------------------------------------------
(* JavaScript Date arithmetic on local-midnight dates *)

IsLeap(y) == (y % 4 = 0 /\ y % 100 # 0) \/ y % 400 = 0

\* m is 0-based
DaysInMonth(y, m) ==
    IF m = 1 THEN (IF IsLeap(y) THEN 29 ELSE 28)
    ELSE IF m \in {3, 5, 8, 10} THEN 30 ELSE 31

\* new Date(y, m, dd): a day past the end of the month rolls into the next
\* month (dd is at most one month's length too large in every call made here)
MkDate(y, m, dd) ==
    IF dd <= DaysInMonth(y, m) THEN [year |-> y, month |-> m, date |-> dd]
    ELSE IF m = 11 THEN [year |-> y + 1, month |-> 0, date |-> dd - DaysInMonth(y, m)]
    ELSE [year |-> y, month |-> m + 1, date |-> dd - DaysInMonth(y, m)]

\* d.setDate(d.getDate() + 1)
AddDay(dt) == MkDate(dt.year, dt.month, dt.date + 1)

\* date.setFullYear(y)
SetFullYear(dt, y) == MkDate(y, dt.month, dt.date)

DaysBeforeMonth(y, m) ==
    LET cum == <<0, 31, 59, 90, 120, 151, 181, 212, 243, 273, 304, 334>>
    IN  cum[m + 1] + (IF m > 1 /\ IsLeap(y) THEN 1 ELSE 0)

\* date.getTime() / (1000 * 60 * 60 * 24): days since 0001-01-01
DayNum(dt) ==
    LET y == dt.year - 1
    IN  365 * y + (y \div 4) - (y \div 100) + (y \div 400)
        + DaysBeforeMonth(dt.year, dt.month) + dt.date - 1

\* new Date("YYYY-MM-DD")
ParseDate(key) == [year |-> key[1], month |-> key[2] - 1, date |-> key[3]]

\* getLocalDateString / getFormattedDateString with "YYYY-MM-DD"
getFormattedDateString(dt) == <<dt.year, dt.month + 1, dt.date>>

\* a <= b on date-key strings
KeyLE(a, b) ==
    \/ a[1] < b[1]
    \/ a[1] = b[1] /\ a[2] < b[2]
    \/ a[1] = b[1] /\ a[2] = b[2] /\ a[3] <= b[3]

----------------------------------------------------------------------------
(* colorUtils *)

NoColor == <<>>

\* the sRGB-to-linear transform of getLuminance, times 10^5, tabulated from
\* v <= 0.03928 ? v / 12.92 : ((v + 0.055) / 1.055) ^ 2.4 with v = c / 255
\* for the channel values of the modelled palette
sRGBLinear(c) ==
    CASE c = 0   -> 0
      [] c = 17  -> 561
      [] c = 34  -> 1600
      [] c = 51  -> 3310
      [] c = 255 -> 100000

\* getLuminance(hex), times 10^9
getLuminance(hex) ==
    2126 * sRGBLinear(hex[1]) + 7152 * sRGBLinear(hex[2]) + 722 * sRGBLinear(hex[3])

Clamp255(v) == IF v > 255 THEN 255 ELSE IF v < 0 THEN 0 ELSE v

\* adjustColor(hex, amount)
adjustColor(hex, amount) ==
    <<Clamp255(hex[1] + amount), Clamp255(hex[2] + amount), Clamp255(hex[3] + amount)>>

\* Theme.COLOR_LIGHTEN_AMOUNT / colorLightenAmount default
COLOR_LIGHTEN_AMOUNT == 50

\* getNoteColor(periodColor, fallbackColor); lightColorThreshold = 0.5
getNoteColor(periodColor, fallbackColor) ==
    IF periodColor = NoColor THEN fallbackColor
    ELSE IF getLuminance(periodColor) < 500000000
         THEN adjustColor(periodColor, COLOR_LIGHTEN_AMOUNT)
         ELSE adjustColor(periodColor, 0 - COLOR_LIGHTEN_AMOUNT)

\* --life-grid-square-default-color (#23272e), --life-grid-square-note-color (#6fcf97)
squareDefaultColor == <<35, 39, 46>>
squareNoteColor == <<111, 207, 151>>

----------------------------------------------------------------------------
(* Inputs of a render pass *)

\* the "present" / empty end of a period
Present == <<>>

PeriodA == [start |-> <<1990, 6, 1>>, end |-> <<1992, 9, 30>>, color |-> <<17, 34, 51>>, label |-> "A"]
PeriodB == [start |-> <<1990, 7, 1>>, end |-> Present, color |-> <<255, 255, 255>>, label |-> "B"]

PeriodLists == {<<>>, <<PeriodA, PeriodB>>, <<PeriodB, PeriodA>>}

\* the daily notes of the vault that match the format and folder: basename,
\* front-matter color (NoColor when absent) and front-matter eventName ("" when absent)
Note(key, color, eventName) == [basename |-> key, color |-> color, eventName |-> eventName]

Vault ==
    { Note(<<1990, 5, 20>>, NoColor, ""),
      Note(<<1990, 5, 21>>, <<170, 187, 204>>, "Graduation"),
      Note(<<1990, 8, 1>>, NoColor, ""),
      Note(<<1990, 8, 2>>, <<170, 187, 204>>, "Wedding"),
      Note(<<1991, 1, 1>>, NoColor, ""),
      Note(<<1992, 3, 10>>, NoColor, ""),
      Note(<<1992, 3, 11>>, <<170, 187, 204>>, ""),
      Note(<<1992, 10, 10>>, NoColor, ""),
      Note(<<1992, 10, 11>>, <<170, 187, 204>>, "Move") }

Vaults == {{}, Vault}

Birthdays == {<<1990, 5, 15>>, <<1992, 1, 1>>, <<1992, 2, 29>>}

Todays == {<<1990, 12, 31>>, <<1991, 1, 1>>, <<1992, 6, 1>>}

\* container.clientWidth || 800, in thousandths of a pixel
ContainerWidth == 800000

\* LifeGridView.onOpen: the configuration of the pass from the settings and the vault
MakeConfig(birthday, maxAge, today, periods, files) ==
    LET startDate == ParseDate(birthday)
    IN  [ startDate |-> startDate,
          endDate |-> SetFullYear(startDate, startDate.year + maxAge),
          today |-> ParseDate(today),
          years |-> maxAge,
          periods |-> periods,
          files |-> files,
          containerWidth |-> ContainerWidth ]

Configs ==
    { MakeConfig(b, a, t, p, f) :
        b \in Birthdays, a \in 1..MaxAge, t \in Todays, p \in PeriodLists, f \in Vaults }

dailyNoteSet(cfg) == {f.basename : f \in cfg.files}

\* dayToFilePath[key] is set (truthy) for the basename of every matching file
HasFilePath(cfg, key) == \E f \in cfg.files : f.basename = key

\* dayToColor[key]: the front-matter color of the note, NoColor when none
dayToColor(cfg, key) ==
    IF \E f \in cfg.files : f.basename = key
    THEN (CHOOSE f \in cfg.files : f.basename = key).color
    ELSE NoColor

\* metadataCache.getCache(dayToFilePath[key]).frontmatter["eventName"], "" when none
EventNameOf(cfg, key) ==
    IF \E f \in cfg.files : f.basename = key
    THEN (CHOOSE f \in cfg.files : f.basename = key).eventName
    ELSE ""

----------------------------------------------------------------------------
(* SpatialIndex (spatialUtils) *)

\* Theme.GRID_CELL_SIZE, in thousandths of a pixel
GRID_CELL_SIZE == 50000

EmptyIndex == <<>>

\* Math.floor(v / cellSize)
Bucket(v, c) == v \div c

\* an add that replaces the bucket instead of appending to it
SpatialAdd_Overwrite(index, c, day) ==
    LET key == <<Bucket(day.cx, c), Bucket(day.cy, c)>>
    IN  [k \in DOMAIN index \cup {key} |-> IF k = key THEN <<day>> ELSE index[k]]

\* SpatialIndex.add(day)
SpatialAdd(index, c, day) ==
    LET key == <<Bucket(day.cx, c), Bucket(day.cy, c)>>
    IN  IF key \in DOMAIN index
        THEN [index EXCEPT ![key] = Append(@, day)]
        ELSE [k \in DOMAIN index \cup {key} |-> IF k = key THEN <<day>> ELSE index[k]]

\* the bucket of the index, empty when absent
Cell(index, gx, gy) == IF <<gx, gy>> \in DOMAIN index THEN index[<<gx, gy>>] ELSE <<>>

\* a neighbourhood that leaves out the buckets to the left and above
getNearbyCells_NoNegative(index, c, x, y) ==
    LET gx == Bucket(x, c)
        gy == Bucket(y, c)
    IN  Cell(index, gx, gy) \o Cell(index, gx, gy + 1)
        \o Cell(index, gx + 1, gy) \o Cell(index, gx + 1, gy + 1)

\* SpatialIndex.getNearbyCells(x, y): dx outer, dy inner, both from -1 to 1
getNearbyCells(index, c, x, y) ==
    LET gx == Bucket(x, c)
        gy == Bucket(y, c)
    IN  Cell(index, gx - 1, gy - 1) \o Cell(index, gx - 1, gy) \o Cell(index, gx - 1, gy + 1)
        \o Cell(index, gx, gy - 1) \o Cell(index, gx, gy) \o Cell(index, gx, gy + 1)
        \o Cell(index, gx + 1, gy - 1) \o Cell(index, gx + 1, gy) \o Cell(index, gx + 1, gy + 1)

\* SpatialIndex.size()
IndexSize(index) ==
    LET keys == DOMAIN index
        RECURSIVE Sum(_)
        Sum(ks) == IF ks = {} THEN 0
                   ELSE LET k == CHOOSE k \in ks : TRUE IN Len(index[k]) + Sum(ks \ {k})
    IN  Sum(keys)

----------------------------------------------------------------------------
(* buildPaintArray *)

\* Math.round((endDate - startDate) / msPerDay)
TotalDays(cfg) == DayNum(cfg.endDate) - DayNum(cfg.startDate)

\* isDateInPeriod(date, period)
isDateInPeriod(cfg, date, period) ==
    LET periodEnd == IF period.end = Present
                     THEN getFormattedDateString(cfg.today)
                     ELSE period.end
    IN  KeyLE(period.start, date) /\ KeyLE(date, periodEnd)

\* a find that returns the last matching period instead of the first
FindPeriod_Last(cfg, date) ==
    LET hits == {k \in 1..Len(cfg.periods) : isDateInPeriod(cfg, date, cfg.periods[k])}
    IN  IF hits = {} THEN 0 ELSE CHOOSE k \in hits : \A j \in hits : k >= j

\* periods.find((p) => isDateInPeriod(dayStr, p)): index of the period found, 0 if none
FindPeriod(cfg, date) ==
    LET hits == {k \in 1..Len(cfg.periods) : isDateInPeriod(cfg, date, cfg.periods[k])}
    IN  IF hits = {} THEN 0 ELSE CHOOSE k \in hits : \A j \in hits : k <= j

IsJan1(dt) == dt.month = 0 /\ dt.date = 1

\* a year marker only on January 1st, none for the first day of the range
IsFirstDay_Jan1Only(dt, idx) == IsJan1(dt)

\* isFirstDay
IsFirstDay(dt, idx) == idx = 0 \/ IsJan1(dt)

\* the day is pushed unless it is a January 1st other than the first day
PushesDay(dt, idx) == ~(IsJan1(dt) /\ idx # 0)

YearPaint(dt) == [type |-> "year", year |-> dt.year]

DayPaint(cfg, dt) ==
    LET dayStr == getFormattedDateString(dt)
        p == FindPeriod(cfg, dayStr)
    IN  [ type |-> "day",
          date |-> dayStr,
          isToday |-> (dayStr = getFormattedDateString(cfg.today)),
          hasNote |-> (dayStr \in dailyNoteSet(cfg) /\ HasFilePath(cfg, dayStr)),
          periodColor |-> IF p = 0 THEN NoColor ELSE cfg.periods[p].color,
          color |-> dayToColor(cfg, dayStr) ]

\* one iteration of the loop of buildPaintArray
BuildStep ==
    /\ pc = "build"
    /\ i <= TotalDays(config)
    /\ LET yearItems == IF IsFirstDay(d, i) THEN <<YearPaint(d)>> ELSE <<>>
           dayItems == IF PushesDay(d, i) THEN <<DayPaint(config, d)>> ELSE <<>>
       IN  paintArray' = paintArray \o yearItems \o dayItems
    /\ d' = AddDay(d)
    /\ i' = i + 1
    /\ UNCHANGED <<pc, config, ri, row, col, clickableDays, dayToRect, yearData, dayInfo,
                   tooltipText>>
    /\ UNCHANGED <<indexVars, ageVars, miniVars, viewVars, utilVars>>

\* the loop ends and createLifeGridSVG goes on to renderMainGrid
BuildDone ==
    /\ pc = "build"
    /\ i > TotalDays(config)
    /\ pc' = "render"
    /\ UNCHANGED <<config, i, d, paintArray, ri, row, col, clickableDays, dayToRect,
                   yearData, dayInfo,
                   tooltipText>>
    /\ UNCHANGED <<indexVars, ageVars, miniVars, viewVars, utilVars>>

----------------------------------------------------------------------------
(* createLifeGridSVG / renderMainGrid; lengths in thousandths of a pixel *)

\* Theme.HEADER_SQUARES
HEADER_SQUARES == 4
\* --life-grid-square-size (7.5px), --life-grid-gap (10px), --life-grid-grid-margin (20px)
squareSize == 7500
gap == 10000
gridMargin == 20000
\* Theme.MINIMAP_DOTS
MINIMAP_DOTS == 5

\* Theme.calculateMinimapWidth
calculateMinimapWidth == MINIMAP_DOTS * (squareSize + gap) - gap

\* Theme.calculateMinimapSpaceReserved
calculateMinimapSpaceReserved == calculateMinimapWidth + gap

\* createLifeGridSVG: daysPerRow
DaysPerRow(cfg) ==
    LET maxGridWidth == cfg.containerWidth - calculateMinimapSpaceReserved - gridMargin
    IN  (maxGridWidth - gap * 2) \div (squareSize + gap)

\* sqrt(squareSize^2 / PI) * CIRCLE_GAP * REGULAR_CIRCLE_MULTIPLIER (4.665px)
RegularRadius == 4665
\* sqrt(squareSize^2 / PI) * CIRCLE_GAP * EVENT_CIRCLE_MULTIPLIER (4.760px)
EventRadius == 4760

\* the period colour applied after the note colour
ResolveColor_PeriodOverNote(item) ==
    LET c0 == squareDefaultColor
        c1 == IF item.hasNote THEN getNoteColor(item.periodColor, squareNoteColor) ELSE c0
        c2 == IF item.periodColor # NoColor THEN item.periodColor ELSE c1
    IN  IF item.color # NoColor THEN item.color ELSE c2

\* the front-matter colour applied before the period and note colours
ResolveColor_OverrideFirst(item) ==
    LET c0 == IF item.color # NoColor THEN item.color ELSE squareDefaultColor
        c1 == IF item.periodColor # NoColor THEN item.periodColor ELSE c0
    IN  IF item.hasNote THEN getNoteColor(item.periodColor, squareNoteColor) ELSE c1

\* renderMainGrid: the fill colour of a day
ResolveColor(item) ==
    LET c0 == squareDefaultColor
        c1 == IF item.periodColor # NoColor THEN item.periodColor ELSE c0
        c2 == IF item.hasNote THEN getNoteColor(item.periodColor, squareNoteColor) ELSE c1
    IN  IF item.color # NoColor THEN item.color ELSE c2

\* a layout that wraps a year header only when the row is full
RenderStep_DayWrapOnly ==
    /\ pc = "render"
    /\ ri < Len(paintArray)
    /\ LET item == paintArray[ri + 1]
           daysPerRow == DaysPerRow(config)
       IN  IF item.type = "year"
           THEN LET wrap == col >= daysPerRow
                    r == IF wrap THEN row + 1 ELSE row
                    c == IF wrap THEN 0 ELSE col
                IN  /\ row' = r
                    /\ col' = c + HEADER_SQUARES
                    /\ yearData' = Append(yearData, [row |-> r, col |-> c, year |-> item.year])
                    /\ UNCHANGED <<clickableDays, spatialIndex, dayToRect>>
           ELSE LET wrap == col >= daysPerRow
                    r == IF wrap THEN row + 1 ELSE row
                    c == IF wrap THEN 0 ELSE col
                    x == c * (squareSize + gap) + gap
                    y == r * (squareSize + gap) + gap
                    color == ResolveColor(item)
                    isEvent == item.color # NoColor
                    cx == x + squareSize \div 2
                    cy == y + squareSize \div 2
                    radius == IF isEvent THEN EventRadius ELSE RegularRadius
                    clickableDay == [date |-> item.date, cx |-> cx, cy |-> cy,
                                     radius |-> radius, color |-> color]
                IN  /\ row' = r
                    /\ col' = c + 1
                    /\ clickableDays' = Append(clickableDays, clickableDay)
                    /\ spatialIndex' = SpatialAdd(spatialIndex, cellSize, clickableDay)
                    /\ dayToRect' = [k \in DOMAIN dayToRect \cup {item.date} |->
                                       IF k = item.date
                                       THEN [cx |-> cx, cy |-> cy, radius |-> radius]
                                       ELSE dayToRect[k]]
                    /\ UNCHANGED yearData
    /\ ri' = ri + 1
    /\ UNCHANGED <<pc, config, i, d, paintArray, dayInfo, tooltipText, cellSize,
                 nearby>>
    /\ UNCHANGED <<ageVars, miniVars, viewVars, utilVars>>

\* one iteration of the loop of renderMainGrid
RenderStep ==
    /\ pc = "render"
    /\ ri < Len(paintArray)
    /\ LET item == paintArray[ri + 1]
           daysPerRow == DaysPerRow(config)
       IN  IF item.type = "year"
           THEN LET wrap == col > daysPerRow - HEADER_SQUARES
                    r == IF wrap THEN row + 1 ELSE row
                    c == IF wrap THEN 0 ELSE col
                IN  /\ row' = r
                    /\ col' = c + HEADER_SQUARES
                    /\ yearData' = Append(yearData, [row |-> r, col |-> c, year |-> item.year])
                    /\ UNCHANGED <<clickableDays, spatialIndex, dayToRect>>
           ELSE LET wrap == col >= daysPerRow
                    r == IF wrap THEN row + 1 ELSE row
                    c == IF wrap THEN 0 ELSE col
                    x == c * (squareSize + gap) + gap
                    y == r * (squareSize + gap) + gap
                    color == ResolveColor(item)
                    isEvent == item.color # NoColor
                    cx == x + squareSize \div 2
                    cy == y + squareSize \div 2
                    radius == IF isEvent THEN EventRadius ELSE RegularRadius
                    clickableDay == [date |-> item.date, cx |-> cx, cy |-> cy,
                                     radius |-> radius, color |-> color]
                IN  /\ row' = r
                    /\ col' = c + 1
                    /\ clickableDays' = Append(clickableDays, clickableDay)
                    /\ spatialIndex' = SpatialAdd(spatialIndex, cellSize, clickableDay)
                    /\ dayToRect' = [k \in DOMAIN dayToRect \cup {item.date} |->
                                       IF k = item.date
                                       THEN [cx |-> cx, cy |-> cy, radius |-> radius]
                                       ELSE dayToRect[k]]
                    /\ UNCHANGED yearData
    /\ ri' = ri + 1
    /\ UNCHANGED <<pc, config, i, d, paintArray, dayInfo, tooltipText, cellSize,
                 nearby>>
    /\ UNCHANGED <<ageVars, miniVars, viewVars, utilVars>>

\* renderMainGrid returns; setupUIInteractions registers the handlers
RenderDone ==
    /\ pc = "render"
    /\ ri = Len(paintArray)
    /\ pc' = "done"
    /\ UNCHANGED <<config, i, d, paintArray, ri, row, col, clickableDays, dayToRect,
                   yearData, dayInfo,
                   tooltipText>>
    /\ UNCHANGED <<indexVars, ageVars, miniVars, viewVars, utilVars>>

----------------------------------------------------------------------------
(* setupUIInteractions *)

NoInfo == [date |-> <<>>, eventName |-> "", periodLabel |-> "", hasNote |-> FALSE]

\* getDayInfo(day)
getDayInfo(cfg, day) ==
    LET p == FindPeriod(cfg, day.date)
    IN  [ date |-> day.date,
          eventName |-> EventNameOf(cfg, day.date),
          periodLabel |-> IF p # 0 THEN cfg.periods[p].label ELSE "",
          hasNote |-> (day.date \in dailyNoteSet(cfg) /\ HasFilePath(cfg, day.date)) ]

\* the days the pointer is moved over: one before, on and after every period
\* boundary, and one of each kind of note
HoverDates ==
    { <<1990, 5, 31>>, <<1990, 6, 1>>, <<1990, 6, 30>>, <<1990, 7, 1>>, <<1990, 8, 2>>,
      <<1990, 12, 31>>, <<1991, 1, 2>>, <<1992, 3, 10>>, <<1992, 6, 1>>, <<1992, 6, 2>>,
      <<1992, 9, 30>>, <<1992, 10, 1>>, <<1992, 10, 11>> }

----------------------------------------------------------------------------
(* calculateAge (ageUtils) *)

\* the age of the inline calculateAge of the view: days / 365.25, floored to a tenth
calculateAge_Days365(birth, target) ==
    LET days == DayNum(target) - DayNum(birth)
    IN  IF days < 0 THEN 0 ELSE (40 * days) \div 1461

\* calculateAge(birthDate, targetDate), times ten.  finalAge is the rational
\* (age * totalYearMs + progressMs) / totalYearMs; toFixed(1) rounds it to the
\* nearest tenth (a tie would need 20 * progress = (2k + 1) * total, which no
\* year of 365 or 366 days allows)
calculateAge(birth, target) ==
    LET thisYearBirthday == MkDate(target.year, birth.month, birth.date)
        before == DayNum(target) < DayNum(thisYearBirthday)
        age == IF before THEN target.year - birth.year - 1 ELSE target.year - birth.year
        startOfAgeYear == IF before THEN MkDate(target.year - 1, birth.month, birth.date)
                          ELSE thisYearBirthday
        endOfAgeYear == IF before THEN thisYearBirthday
                        ELSE MkDate(target.year + 1, birth.month, birth.date)
        totalYear == DayNum(endOfAgeYear) - DayNum(startOfAgeYear)
        progress == DayNum(target) - DayNum(startOfAgeYear)
        num == age * totalYear + progress
    IN  IF num < 0 THEN 0 ELSE (20 * num + totalYear) \div (2 * totalYear)

\* the text of the tooltip of the main grid

\* no tooltip built
NoText == [age |-> 0 - 1, date |-> <<>>, suffix |-> ""]

\* a text that names the period of every day without an event name
TooltipTextOf_LabelOverNote(cfg, day) ==
    LET info == getDayInfo(cfg, day)
    IN  [ age |-> calculateAge(cfg.startDate, ParseDate(day.date)),
          date |-> day.date,
          suffix |-> IF info.eventName # "" THEN info.eventName ELSE info.periodLabel ]

\* mouseEventHandler: tooltipText, the text `${age}yo ${date}` and what is
\* appended to it after the dash, "" when nothing is
TooltipTextOf(cfg, day) ==
    LET info == getDayInfo(cfg, day)
    IN  [ age |-> calculateAge(cfg.startDate, ParseDate(day.date)),
          date |-> day.date,
          suffix |-> IF info.eventName # "" THEN info.eventName
                     ELSE IF info.hasNote THEN ""
                     ELSE info.periodLabel ]

\* mouseEventHandler reaches getDayInfo for the day under the pointer and
\* sets the text of the tooltip
HoverDay(k) ==
    /\ pc = "done"
    /\ clickableDays[k].date \in HoverDates
    /\ dayInfo' = getDayInfo(config, clickableDays[k])
    /\ tooltipText' = TooltipTextOf(config, clickableDays[k])
    /\ UNCHANGED <<pc, config, i, d, paintArray, ri, row, col, clickableDays, dayToRect,
                   yearData>>
    /\ UNCHANGED <<indexVars, ageVars, miniVars, viewVars, utilVars>>

NoAction == [kind |-> "none", event |-> <<>>, bands |-> {}]

MiniIdle ==
    /\ now = 0
    /\ lastClickedEvent = <<>>
    /\ lastClickTime = 0
    /\ pendingOpens = 0
    /\ tooltipDiv = FALSE
    /\ scrolledTo = <<>>
    /\ clicks = 0
    /\ lastAction = NoAction
    /\ unhandled = 0

NoPath == <<"?">>

\* no circle grouped
BatchIdle ==
    /\ css = <<>>
    /\ dayColor = <<>>
    /\ colorKey = <<>>
    /\ pathAttributes = <<>>

\* no note created from a format
FormatIdle ==
    /\ dailyNoteFormat = <<>>
    /\ clickedDay = <<>>
    /\ foundNotes = {}

\* no click handled
ClickIdle ==
    /\ vaultFiles = {}
    /\ dayToFilePath = {}
    /\ createRequests = <<>>
    /\ gridShown = FALSE
    /\ dayClicks = 0

\* no minimap drawn
DrawIdle ==
    /\ minimapPeriods = <<>>
    /\ periodRects = <<>>
    /\ minimapEventsWithPosition = <<>>
    /\ hoverY = 0 - 1
    /\ hoverBands = {}

\* no pointer event yet: no tooltip
HoverIdle ==
    /\ pointer = <<>>
    /\ lastEvent = "none"
    /\ currentTooltip = 0
    /\ lastHoveredDay = <<>>
    /\ bodyTooltips = <<>>
    /\ tooltipCount = 0

UtilIdle ==
    /\ stored = <<>>
    /\ settings = <<>>
    /\ lastOp = "none"
    /\ dailyNoteFolder = <<>>
    /\ dateString = <<>>
    /\ filePath = NoPath
    /\ HoverIdle
    /\ DrawIdle
    /\ ClickIdle
    /\ FormatIdle
    /\ BatchIdle

ViewIdle ==
    /\ viewState = "new"
    /\ hasBirthday = FALSE
    /\ birthdayParses = FALSE
    /\ corruptPeriod = FALSE
    /\ content = "none"
    /\ rejections = 0
    /\ listeners = {}
    /\ resizeHandler = 0
    /\ resizeTimeout = 0
    /\ timers = {}
    /\ timerCount = 0
    /\ clock = 0
    /\ lastResize = 0 - 1
    /\ timerRenders = 0
    /\ renders = 0
    /\ docTooltips = FALSE
    /\ staleRenders = 0

AgeIdle ==
    /\ birthDate = <<>>
    /\ targetDate = <<>>
    /\ ageTenths = 0

PaintIdle ==
    /\ config = <<>>
    /\ i = 0
    /\ d = <<>>
    /\ paintArray = <<>>
    /\ ri = 0
    /\ row = 0
    /\ col = 0
    /\ clickableDays = <<>>
    /\ dayToRect = <<>>
    /\ yearData = <<>>
    /\ dayInfo = NoInfo
    /\ tooltipText = NoText

BirthDates ==
    { ParseDate(<<1990, 5, 15>>), ParseDate(<<1992, 2, 29>>), ParseDate(<<1991, 12, 31>>),
      ParseDate(<<1992, 1, 1>>), ParseDate(<<1991, 3, 1>>) }

\* the age is calculated for the day after the last one
AgeNextDay ==
    /\ pc = "age"
    /\ targetDate.year <= birthDate.year + MaxAgeYears
    /\ targetDate' = AddDay(targetDate)
    /\ ageTenths' = calculateAge(birthDate, targetDate')
    /\ UNCHANGED <<birthDate, paintVars, indexVars, miniVars, viewVars, utilVars>>

InitAge ==
    /\ pc = "age"
    /\ PaintIdle
    /\ spatialIndex = EmptyIndex
    /\ cellSize = GRID_CELL_SIZE
    /\ nearby = <<>>
    /\ MiniIdle
    /\ ViewIdle
    /\ UtilIdle
    /\ birthDate \in BirthDates
    /\ targetDate = MkDate(birthDate.year - 1, 11, 30)
    /\ ageTenths = calculateAge(birthDate, targetDate)

NextAge == AgeNextDay

SpecAge == InitAge /\ [][NextAge]_vars

\* the target date is the birth date moved to a later (or the same) year
IsAnniversary(birth, target) ==
    /\ target.year >= birth.year
    /\ target.month = birth.month
    /\ target.date = birth.date

\* C7: for a fixed birth date the age does not decrease from one day to the
\* next, and on every anniversary of the birth date it is the whole number of
\* years since the birth.
C7_MonotoneAndWhole ==
    /\ [][pc = "age" => ageTenths' >= ageTenths]_vars
    /\ [](pc = "age" /\ IsAnniversary(birthDate, targetDate)
            => ageTenths = 10 * (targetDate.year - birthDate.year))

\* birth 1990-05-15, target 2015-05-15: "25.0"
C7_Witness ==
    /\ pc = "age"
    /\ birthDate = ParseDate(<<1990, 5, 15>>)
    /\ targetDate = ParseDate(<<2015, 5, 15>>)
    /\ ageTenths = 250

\* C8: on the day before an anniversary the age is strictly less than the
\* whole number of years reached on the anniversary.
C8_BelowUntilBirthday ==
    (pc = "age" /\ IsAnniversary(birthDate, AddDay(targetDate))
                /\ AddDay(targetDate).year > birthDate.year)
        => ageTenths < 10 * (AddDay(targetDate).year - birthDate.year)

----------------------------------------------------------------------------
(* One render pass *)

InitPaint ==
    /\ config \in Configs
    /\ pc = "build"
    /\ i = 0
    /\ d = config.startDate
    /\ paintArray = <<>>
    /\ ri = 0
    /\ row = 0
    /\ col = 0
    /\ clickableDays = <<>>
    /\ dayToRect = <<>>
    /\ yearData = <<>>
    /\ dayInfo = NoInfo
    /\ tooltipText = NoText
    /\ spatialIndex = EmptyIndex
    /\ cellSize = GRID_CELL_SIZE
    /\ nearby = <<>>
    /\ AgeIdle
    /\ MiniIdle
    /\ ViewIdle
    /\ UtilIdle

NextPaint ==
    \/ BuildStep
    \/ BuildDone
    \/ RenderStep
    \/ RenderDone
    \/ \E k \in 1..Len(clickableDays) : HoverDay(k)

SpecPaint == InitPaint /\ [][NextPaint]_vars

----------------------------------------------------------------------------
(* Properties of the paint plan and of the colour resolution *)

\* buildPaintArray has just returned
Built == pc = "render" /\ ri = 0

DayIdx == {k \in 1..Len(paintArray) : paintArray[k].type = "day"}
YearIdx == {k \in 1..Len(paintArray) : paintArray[k].type = "year"}

\* the DayPaint items in order: clickableDays[k] is made from DayItems[k]
DayItems == SelectSeq(paintArray, LAMBDA it : it.type = "day")

\* C1: the paint plan holds one DayMarker for every calendar day of the range
\* [start, end], both inclusive: as many DayMarkers as days, no date twice and
\* every date inside the range.
C1_DayCoverage ==
    Built =>
        /\ Cardinality(DayIdx) = TotalDays(config) + 1
        /\ Cardinality({paintArray[k].date : k \in DayIdx}) = Cardinality(DayIdx)
        /\ \A k \in DayIdx :
              /\ KeyLE(getFormattedDateString(config.startDate), paintArray[k].date)
              /\ KeyLE(paintArray[k].date, getFormattedDateString(config.endDate))

\* C13: when today lies within the rendered range [start, end], the paint plan
\* holds exactly one DayMarker with isToday = TRUE.
C13_TodayMarked ==
    (Built /\ DayNum(config.startDate) <= DayNum(config.today)
           /\ DayNum(config.today) <= DayNum(config.endDate))
        => Cardinality({k \in DayIdx : paintArray[k].isToday}) = 1

\* the fill colour in the order stated by the specification:
\* override, period, derived note colour, default
FillByStatedOrder(item) ==
    IF item.color # NoColor THEN item.color
    ELSE IF item.periodColor # NoColor THEN item.periodColor
    ELSE IF item.hasNote THEN getNoteColor(item.periodColor, squareNoteColor)
    ELSE squareDefaultColor

\* the fill colour in the order of the renderer:
\* override, derived note colour, period, default
FillByNoteFirstOrder(item) ==
    IF item.color # NoColor THEN item.color
    ELSE IF item.hasNote THEN getNoteColor(item.periodColor, squareNoteColor)
    ELSE IF item.periodColor # NoColor THEN item.periodColor
    ELSE squareDefaultColor

\* C2 (as stated): every day is filled with the first of override colour,
\* period colour, derived note colour (when it has a note) and default colour,
\* so a day in a period without override has the period colour as its fill.
C2_StatedPriority ==
    pc = "done" =>
        \A k \in 1..Len(clickableDays) : clickableDays[k].color = FillByStatedOrder(DayItems[k])

\* C2 (amended): every day is filled with the first of override colour, derived
\* note colour (when it has a note; derived from the period colour when the day
\* lies in a period), period colour and default colour.
C2_NoteBeforePeriod ==
    pc = "done" =>
        \A k \in 1..Len(clickableDays) :
            /\ clickableDays[k].date = DayItems[k].date
            /\ clickableDays[k].color = FillByNoteFirstOrder(DayItems[k])

\* a day with a note, in a period and without override is filled with the
\* colour derived from the period colour, which is not the period colour
C2_Witness ==
    /\ pc = "done"
    /\ \E k \in 1..Len(clickableDays) :
          /\ DayItems[k].hasNote
          /\ DayItems[k].periodColor # NoColor
          /\ DayItems[k].color = NoColor
          /\ clickableDays[k].color = getNoteColor(DayItems[k].periodColor, squareNoteColor)
          /\ clickableDays[k].color # DayItems[k].periodColor

\* C3: a day whose note has a front-matter color is filled with that colour,
\* whatever its period membership and note presence.
C3_OverrideWins ==
    pc = "done" =>
        \A k \in 1..Len(clickableDays) :
            dayToColor(config, clickableDays[k].date) # NoColor
                => clickableDays[k].color = dayToColor(config, clickableDays[k].date)

\* a day in the period coloured #112233 whose note has color #aabbcc is
\* filled with #aabbcc
C3_Witness ==
    /\ pc = "done"
    /\ \E k \in 1..Len(clickableDays) :
          /\ DayItems[k].periodColor = <<17, 34, 51>>
          /\ DayItems[k].hasNote
          /\ dayToColor(config, clickableDays[k].date) = <<170, 187, 204>>
          /\ clickableDays[k].color = <<170, 187, 204>>

\* the date lies between the start and the effective end of the period
Contains(cfg, period, date) ==
    /\ KeyLE(period.start, date)
    /\ KeyLE(date, IF period.end = Present THEN getFormattedDateString(cfg.today) ELSE period.end)

\* C4: the periodColor of a day, and the period label of its tooltip, are those
\* of the first period in declaration order that contains the date.
C4_FirstPeriodWins ==
    Built =>
        \A k \in DayIdx : \A p \in 1..Len(config.periods) :
            ( /\ Contains(config, config.periods[p], paintArray[k].date)
              /\ \A q \in 1..(p - 1) : ~Contains(config, config.periods[q], paintArray[k].date) )
            => /\ paintArray[k].periodColor = config.periods[p].color
               /\ getDayInfo(config, paintArray[k]).periodLabel = config.periods[p].label

\* the pointer is over a day that two periods contain: its periodColor and its
\* tooltip label are those of the first declared, which differ from the second's
C4_Witness ==
    /\ pc = "done"
    /\ Len(config.periods) = 2
    /\ dayInfo # NoInfo
    /\ Contains(config, config.periods[1], dayInfo.date)
    /\ Contains(config, config.periods[2], dayInfo.date)
    /\ dayInfo.periodLabel = config.periods[1].label
    /\ dayInfo.periodLabel # config.periods[2].label
    /\ \E k \in DayIdx :
          /\ paintArray[k].date = dayInfo.date
          /\ paintArray[k].periodColor = config.periods[1].color
          /\ paintArray[k].periodColor # config.periods[2].color

\* C5: there is one YearMarker for every calendar year the range touches, and
\* the YearMarker of a year stands before every DayMarker of that year and
\* after every DayMarker of earlier years; the plan starts with a YearMarker.
C5_YearMarkers ==
    Built =>
        /\ Cardinality(YearIdx) = config.endDate.year - config.startDate.year + 1
        /\ {paintArray[k].year : k \in YearIdx} = config.startDate.year .. config.endDate.year
        /\ paintArray[1].type = "year"
        /\ \A y \in YearIdx : \A k \in DayIdx :
              /\ paintArray[k].date[1] = paintArray[y].year => y < k
              /\ paintArray[k].date[1] < paintArray[y].year => k < y

\* a range that starts on January 1st: one YearMarker for the first year, at
\* the head of the plan, and another for the next year
C5_Witness ==
    /\ Built
    /\ IsJan1(config.startDate)
    /\ Cardinality({k \in YearIdx : paintArray[k].year = config.startDate.year}) = 1
    /\ paintArray[1] = YearPaint(config.startDate)
    /\ Cardinality(YearIdx) >= 2

----------------------------------------------------------------------------
(* A spatial index on its own: entries at arbitrary coordinates *)

\* new SpatialIndex(cellSize)
CellSizes == {2, 3}

XCoords == (0 - 2)..MaxCoord
YCoords == (0 - 1)..0

Entry(n, x, y) == [date |-> <<n>>, cx |-> x, cy |-> y, radius |-> 1, color |-> NoColor]

NoQuery == <<>>

\* spatialIndex.add(day)
IndexAdd(x, y) ==
    /\ pc = "index"
    /\ IndexSize(spatialIndex) < MaxEntries
    /\ spatialIndex' = SpatialAdd(spatialIndex, cellSize,
                                  Entry(IndexSize(spatialIndex) + 1, x, y))
    /\ UNCHANGED <<cellSize, nearby>>
    /\ UNCHANGED <<paintVars, ageVars, miniVars, viewVars, utilVars>>

\* spatialIndex.getNearbyCells(x, y)
IndexQuery(x, y) ==
    /\ pc = "index"
    /\ nearby' = [x |-> x, y |-> y, cells |-> getNearbyCells(spatialIndex, cellSize, x, y)]
    /\ UNCHANGED <<spatialIndex, cellSize>>
    /\ UNCHANGED <<paintVars, ageVars, miniVars, viewVars, utilVars>>

InitIndex ==
    /\ pc = "index"
    /\ PaintIdle
    /\ AgeIdle
    /\ MiniIdle
    /\ ViewIdle
    /\ UtilIdle
    /\ spatialIndex = EmptyIndex
    /\ cellSize \in CellSizes
    /\ nearby = NoQuery

NextIndex ==
    \/ \E x \in XCoords, y \in YCoords : IndexAdd(x, y)
    \/ \E x \in XCoords, y \in YCoords : IndexQuery(x, y)

SpecIndex == InitIndex /\ [][NextIndex]_vars

\* the entries of the index, over all buckets
Entries(index) == UNION {{index[k][n] : n \in 1..Len(index[k])} : k \in DOMAIN index}

Elems(seq) == {seq[n] : n \in 1..Len(seq)}

\* the centre of the entry lies within c/2 of (x, y)
WithinHalfCell(e, c, x, y) ==
    4 * ((e.cx - x) * (e.cx - x) + (e.cy - y) * (e.cy - y)) <= c * c

\* C6: getNearbyCells(x, y) returns every entry of the index whose centre lies
\* within cellSize/2 of (x, y).
C6_NoFalseNegatives ==
    [][ nearby' # nearby =>
          \A e \in Entries(spatialIndex') :
              WithinHalfCell(e, cellSize', nearby'.x, nearby'.y) => e \in Elems(nearby'.cells) ]_vars

\* a query returns an entry within cellSize/2 that is stored in another bucket
C6_Witness ==
    /\ pc = "index"
    /\ nearby # NoQuery
    /\ \E e \in Elems(nearby.cells) :
          /\ WithinHalfCell(e, cellSize, nearby.x, nearby.y)
          /\ Bucket(e.cx, cellSize) # Bucket(nearby.x, cellSize)
          /\ Bucket(e.cy, cellSize) # Bucket(nearby.y, cellSize)
          /\ nearby.x % cellSize = 0

----------------------------------------------------------------------------
(* setupMinimapInteractions: the minimap click handler of one render pass;  *)
(* lengths in thousandths of a pixel, times in ms                           *)

DOUBLE_CLICK_THRESHOLD == 500

\* minimapEventsWithPosition: the ticks of three events, the first two
\* overlapping (height: 3)
MinimapEvents ==
    << [date |-> <<1990, 8, 2>>, y |-> 100000, height |-> 3000],
       [date |-> <<1990, 8, 20>>, y |-> 102000, height |-> 3000],
       [date |-> <<1992, 10, 11>>, y |-> 200000, height |-> 3000] >>

\* a period that starts on a January 1st
PeriodC == [start |-> <<1991, 1, 1>>, end |-> <<1991, 3, 31>>, color |-> <<17, 34, 51>>, label |-> "C"]

\* minimapPeriods: the bands of the periods <<PeriodA, PeriodC, PeriodB>>, in
\* the order of the settings; the band of PeriodB overlaps the other two
MinimapPeriods ==
    << [period |-> PeriodA, startY |-> 50000, endY |-> 101000],
       [period |-> PeriodC, startY |-> 125000, endY |-> 126500],
       [period |-> PeriodB, startY |-> 70000, endY |-> 250000] >>

\* the pass rendered 1990-05-15 .. 1993-05-15
MinimapStart == ParseDate(<<1990, 5, 15>>)
MinimapEnd == SetFullYear(MinimapStart, MinimapStart.year + 3)

\* buildPaintArray made a day item for the date: it is in the range and not a
\* January 1st after the first day
HasDayItem(key) ==
    LET idx == DayNum(ParseDate(key)) - DayNum(MinimapStart)
    IN  /\ idx >= 0
        /\ idx <= DayNum(MinimapEnd) - DayNum(MinimapStart)
        /\ PushesDay(ParseDate(key), idx)

\* dayToRect, at the days of the events and of the period starts
MinimapRects ==
    [k \in {key \in {MinimapEvents[n].date : n \in 1..Len(MinimapEvents)}
                     \cup {MinimapPeriods[n].period.start : n \in 1..Len(MinimapPeriods)} :
              HasDayItem(key)} |->
        [cx |-> 0, cy |-> 0, radius |-> RegularRadius]]

\* pointer positions: in the period column or in the event column; on the
\* band, on each tick, on two ticks at once, on band and tick, on nothing
ClickXs == {5000, 30000}
ClickYs == {60000, 100000, 102500, 104000, 126000, 200000, 300000}

\* time between two modelled events
Delays == {100, 400}

\* the bands that span the pointer position, when it is in the band column
BandsAt(mx, my) ==
    IF mx >= 0 /\ mx <= gap
    THEN {k \in 1..Len(MinimapPeriods) :
             my >= MinimapPeriods[k].startY /\ my <= MinimapPeriods[k].endY}
    ELSE {}

\* index of the first period band hit by a click in the band column, 0 if none
HitPeriod(mx, my) ==
    LET hits == {k \in 1..Len(MinimapPeriods) :
                    my >= MinimapPeriods[k].startY /\ my <= MinimapPeriods[k].endY}
    IN  IF mx >= 0 /\ mx <= gap /\ hits # {}
        THEN CHOOSE k \in hits : \A j \in hits : k <= j
        ELSE 0

\* index of the first event whose tick spans y, 0 if none
HitEvent(my) ==
    LET hits == {k \in 1..Len(MinimapEvents) :
                    my >= MinimapEvents[k].y
                    /\ my <= MinimapEvents[k].y + MinimapEvents[k].height}
    IN  IF hits = {} THEN 0 ELSE CHOOSE k \in hits : \A j \in hits : k <= j

\* a double click that also counts a click exactly 500 ms after the first
IsSecondClick_Inclusive(date, currentTime) ==
    lastClickedEvent = date /\ currentTime - lastClickTime <= DOUBLE_CLICK_THRESHOLD

\* lastClickedEvent === event.date && currentTime - lastClickTime < DOUBLE_CLICK_THRESHOLD
IsSecondClick(date, currentTime) ==
    lastClickedEvent = date /\ currentTime - lastClickTime < DOUBLE_CLICK_THRESHOLD

ScrollTarget(date) == IF date \in DOMAIN dayToRect THEN date ELSE scrolledTo

\* minimapClickHandler, up to its first await.  The file of an event exists:
\* events are collected from the notes found by this pass.
MinimapClick(mx, my) ==
    /\ pc = "minimap"
    /\ clicks < MaxClicks
    /\ clicks' = clicks + 1
    /\ LET p == HitPeriod(mx, my)
           e == HitEvent(my)
       IN  IF p # 0
           THEN /\ tooltipDiv' = FALSE
                /\ scrolledTo' = ScrollTarget(MinimapPeriods[p].period.start)
                /\ lastAction' = [kind |-> "period", event |-> <<>>, bands |-> BandsAt(mx, my)]
                /\ UNCHANGED <<lastClickedEvent, lastClickTime, pendingOpens>>
           ELSE IF e = 0
           THEN /\ lastAction' = [kind |-> "miss", event |-> <<>>, bands |-> {}]
                /\ UNCHANGED <<lastClickedEvent, lastClickTime, pendingOpens, tooltipDiv,
                               scrolledTo>>
           ELSE IF IsSecondClick(MinimapEvents[e].date, now)
           THEN /\ tooltipDiv' = FALSE
                /\ pendingOpens' = pendingOpens + 1
                /\ lastAction' = [kind |-> "open", event |-> MinimapEvents[e].date, bands |-> {}]
                /\ UNCHANGED <<lastClickedEvent, lastClickTime, scrolledTo>>
           ELSE /\ scrolledTo' = ScrollTarget(MinimapEvents[e].date)
                /\ lastClickedEvent' = MinimapEvents[e].date
                /\ lastClickTime' = now
                /\ lastAction' = [kind |-> "scroll", event |-> MinimapEvents[e].date, bands |-> {}]
                /\ UNCHANGED <<pendingOpens, tooltipDiv>>
    /\ UNCHANGED <<now, unhandled, paintVars, indexVars, ageVars, viewVars, utilVars>>

\* leaf.openFile resolves: the handler resumes and resets the click tracking
OpenResolved ==
    /\ pc = "minimap"
    /\ pendingOpens > 0
    /\ pendingOpens' = pendingOpens - 1
    /\ lastClickedEvent' = <<>>
    /\ lastClickTime' = 0
    /\ UNCHANGED <<now, tooltipDiv, scrolledTo, clicks, lastAction, unhandled>>
    /\ UNCHANGED <<paintVars, indexVars, ageVars, viewVars, utilVars>>

\* leaf.openFile rejects: the await throws inside minimapClickHandler, which
\* has no try/catch, so the promise of the handler rejects with no one to
\* catch it; the tracking is kept
OpenRejected ==
    /\ pc = "minimap"
    /\ pendingOpens > 0
    /\ pendingOpens' = pendingOpens - 1
    /\ unhandled' = unhandled + 1
    /\ UNCHANGED <<now, lastClickedEvent, lastClickTime, tooltipDiv, scrolledTo, clicks,
                   lastAction>>
    /\ UNCHANGED <<paintVars, indexVars, ageVars, viewVars, utilVars>>

\* minimapMousemoveHandler: the tooltip is created when there is none
MinimapMouseMove ==
    /\ pc = "minimap"
    /\ ~tooltipDiv
    /\ tooltipDiv' = TRUE
    /\ UNCHANGED <<now, lastClickedEvent, lastClickTime, pendingOpens, scrolledTo, clicks,
                   lastAction, unhandled>>
    /\ UNCHANGED <<paintVars, indexVars, ageVars, viewVars, utilVars>>

\* minimapMouseleaveHandler
MinimapMouseLeave ==
    /\ pc = "minimap"
    /\ tooltipDiv
    /\ tooltipDiv' = FALSE
    /\ UNCHANGED <<now, lastClickedEvent, lastClickTime, pendingOpens, scrolledTo, clicks,
                   lastAction, unhandled>>
    /\ UNCHANGED <<paintVars, indexVars, ageVars, viewVars, utilVars>>

\* time passes
TimePasses(dt) ==
    /\ pc = "minimap"
    /\ now + dt <= 1000 + MaxTime
    /\ now' = now + dt
    /\ UNCHANGED <<lastClickedEvent, lastClickTime, pendingOpens, tooltipDiv, scrolledTo,
                   clicks, lastAction, unhandled>>
    /\ UNCHANGED <<paintVars, indexVars, ageVars, viewVars, utilVars>>

InitMinimap ==
    /\ pc = "minimap"
    /\ config = <<>>
    /\ i = 0
    /\ d = <<>>
    /\ paintArray = <<>>
    /\ ri = 0
    /\ row = 0
    /\ col = 0
    /\ clickableDays = <<>>
    /\ dayToRect = MinimapRects
    /\ yearData = <<>>
    /\ dayInfo = NoInfo
    /\ tooltipText = NoText
    /\ spatialIndex = EmptyIndex
    /\ cellSize = GRID_CELL_SIZE
    /\ nearby = <<>>
    /\ AgeIdle
    /\ ViewIdle
    /\ UtilIdle
    /\ now = 1000
    /\ lastClickedEvent = <<>>
    /\ lastClickTime = 0
    /\ pendingOpens = 0
    /\ tooltipDiv = FALSE
    /\ scrolledTo = <<>>
    /\ clicks = 0
    /\ lastAction = NoAction
    /\ unhandled = 0

NextMinimap ==
    \/ \E mx \in ClickXs, my \in ClickYs : MinimapClick(mx, my)
    \/ OpenResolved
    \/ OpenRejected
    \/ MinimapMouseMove
    \/ MinimapMouseLeave
    \/ \E dt \in Delays : TimePasses(dt)

SpecMinimap == InitMinimap /\ [][NextMinimap]_vars

\* C9: a click that the handler resolves to an event tick asks for the event's
\* note to be opened exactly when the recorded last click (cleared when an
\* open completes) is on the same event and less than 500 ms old; otherwise it
\* only scrolls the grid to the event's day and records (event, time).
C9_DoubleClick ==
    [][ (clicks' # clicks /\ lastAction'.kind \in {"open", "scroll"}) =>
          LET e == lastAction'.event
              recent == lastClickedEvent = e /\ now - lastClickTime < 500
          IN  /\ (lastAction'.kind = "open") <=> recent
              /\ recent => /\ pendingOpens' = pendingOpens + 1
                           /\ scrolledTo' = scrolledTo
              /\ ~recent => /\ scrolledTo' = e
                            /\ lastClickedEvent' = e
                            /\ lastClickTime' = now
                            /\ pendingOpens' = pendingOpens ]_vars

\* a second click on the same event, 400 ms after the first, has asked for
\* the note
C9_Witness ==
    /\ pc = "minimap"
    /\ lastAction.kind = "open"
    /\ lastAction.event = lastClickedEvent
    /\ now - lastClickTime = 400
    /\ pendingOpens = 1

\* C16: no failure of opening or creating a note leaves the click handler as
\* an unhandled rejection.
C16_RejectionsCaught == unhandled = 0

\* C20: the click that follows, on the same event, the click that asked for
\* the event's note to be opened (the third click of a triple click) does not
\* ask for it again, whether or not the first open has completed.
C20_TripleClick ==
    [][ (clicks' # clicks /\ lastAction.kind = "open"
           /\ lastAction'.event = lastAction.event)
          => lastAction'.kind # "open" ]_vars

\* C12: a click inside a recorded period band (x in the band column, y in the
\* band's span) scrolls the main grid to the day of that period's start date.
C12_BandClickScrolls ==
    [][ clicks' # clicks =>
          \A b \in lastAction'.bands : scrolledTo' = MinimapPeriods[b].period.start ]_vars

----------------------------------------------------------------------------
(* LifeGridView: onOpen, onClose, the window resize listeners and the       *)
(* debounce timer                                                           *)

\* the rest of the model is not in use while the view's life cycle is observed
OthersIdle ==
    /\ config = <<>>
    /\ i = 0
    /\ d = <<>>
    /\ paintArray = <<>>
    /\ ri = 0
    /\ row = 0
    /\ col = 0
    /\ clickableDays = <<>>
    /\ dayToRect = <<>>
    /\ yearData = <<>>
    /\ dayInfo = NoInfo
    /\ tooltipText = NoText
    /\ spatialIndex = EmptyIndex
    /\ cellSize = GRID_CELL_SIZE
    /\ nearby = <<>>
    /\ AgeIdle
    /\ MiniIdle

\* onOpen.  Without a birthday it leaves the message and returns.  Otherwise
\* it builds the containers and the svg and runs the paint loop, which has no
\* iteration when the birthday does not parse (totalDays is NaN) and throws a
\* TypeError at period.end.trim() when a period has no end field; it then
\* draws the grid, assigns a new closure to this.resizeHandler and adds it to
\* window, and builds the minimap, whose loop over the periods throws for a
\* period without an end field.  Nothing in onOpen catches: a throw leaves the
\* container as it is and rejects the promise of onOpen.
\* Tooltips live in document.body: container.empty() leaves them.
onOpen ==
    /\ renders' = renders + 1
    /\ staleRenders' = IF viewState = "closed" THEN staleRenders + 1 ELSE staleRenders
    /\ IF ~hasBirthday
       THEN /\ content' = "message"
            /\ UNCHANGED <<resizeHandler, listeners, rejections>>
       ELSE IF birthdayParses /\ corruptPeriod
       THEN /\ content' = "partial"
            /\ rejections' = rejections + 1
            /\ UNCHANGED <<resizeHandler, listeners>>
       ELSE /\ resizeHandler' = renders + 1
            /\ listeners' = listeners \cup {renders + 1}
            /\ content' = IF corruptPeriod THEN "partial" ELSE "grid"
            /\ rejections' = IF corruptPeriod THEN rejections + 1 ELSE rejections

\* the workspace opens the view
ViewOpen ==
    /\ pc = "view"
    /\ viewState = "new"
    /\ viewState' = "open"
    /\ onOpen
    /\ UNCHANGED <<settingVars, timerVars, debounceVars, docTooltips>>
    /\ UNCHANGED <<paintVars, indexVars, ageVars, miniVars, utilVars>>

\* click on the h2 header: this.onOpen()
HeaderClick ==
    /\ pc = "view"
    /\ viewState = "open"
    /\ renders < MaxRenders
    /\ onOpen
    /\ UNCHANGED <<viewState, settingVars, timerVars, debounceVars, docTooltips>>
    /\ UNCHANGED <<paintVars, indexVars, ageVars, miniVars, utilVars>>

RESIZE_DEBOUNCE == 150

\* a resize handler that starts its timer without clearing the previous one
resizeHandlerRun_NoClear(st) ==
    [timers |-> st.timers \cup {[id |-> st.count + 1, due |-> clock + RESIZE_DEBOUNCE]},
     resizeTimeout |-> st.count + 1,
     count |-> st.count + 1]

\* one run of a resize handler: clearTimeout(this.resizeTimeout);
\* this.resizeTimeout = setTimeout(() => this.onOpen(), 150)
resizeHandlerRun(st) ==
    [timers |-> {t \in st.timers : t.id # st.resizeTimeout}
                    \cup {[id |-> st.count + 1, due |-> clock + RESIZE_DEBOUNCE]},
     resizeTimeout |-> st.count + 1,
     count |-> st.count + 1]

\* the handlers of n listeners run one after the other
RECURSIVE RunListeners(_, _)
RunListeners(n, st) ==
    IF n = 0 THEN st ELSE RunListeners(n - 1, resizeHandlerRun(st))

\* a resize event of the window: every listener on it runs
WindowResize ==
    /\ pc = "view"
    /\ listeners # {}
    /\ timerCount + Cardinality(listeners) <= MaxTimers
    /\ LET st == RunListeners(Cardinality(listeners),
                              [timers |-> timers, resizeTimeout |-> resizeTimeout,
                               count |-> timerCount])
       IN  /\ timers' = st.timers
           /\ resizeTimeout' = st.resizeTimeout
           /\ timerCount' = st.count
    /\ lastResize' = clock
    /\ timerRenders' = 0
    /\ UNCHANGED <<viewState, settingVars, listeners, resizeHandler, clock, renders,
                   docTooltips, staleRenders, content, rejections>>
    /\ UNCHANGED <<paintVars, indexVars, ageVars, miniVars, utilVars>>

\* a debounce timer expires: this.onOpen()
TimerFires(t) ==
    /\ pc = "view"
    /\ t \in timers
    /\ t.due = clock
    /\ renders < MaxRenders
    /\ timers' = timers \ {t}
    /\ timerRenders' = timerRenders + 1
    /\ onOpen
    /\ UNCHANGED <<viewState, settingVars, resizeTimeout, timerCount, clock, lastResize,
                   docTooltips>>
    /\ UNCHANGED <<paintVars, indexVars, ageVars, miniVars, utilVars>>

\* time between two events of the view
Gaps == {50, 100}

\* time passes, up to the moment the next timer is due
Tick(dt) ==
    /\ pc = "view"
    /\ clock + dt <= MaxClock
    /\ \A t \in timers : clock + dt <= t.due
    /\ clock' = clock + dt
    /\ UNCHANGED <<viewState, settingVars, listeners, resizeHandler, timerVars, lastResize,
                   timerRenders, renders, docTooltips, staleRenders, content, rejections>>
    /\ UNCHANGED <<paintVars, indexVars, ageVars, miniVars, utilVars>>

\* the pointer moves over a day of the rendered grid: the tooltip is attached
\* to document.body
ShowTooltip ==
    /\ pc = "view"
    /\ viewState = "open"
    /\ content = "grid"
    /\ birthdayParses
    /\ ~docTooltips
    /\ docTooltips' = TRUE
    /\ UNCHANGED <<viewState, settingVars, listeners, resizeHandler, timerVars,
                   debounceVars, renders, staleRenders, content, rejections>>
    /\ UNCHANGED <<paintVars, indexVars, ageVars, miniVars, utilVars>>

\* the text of the birthday setting: none, a date, or text that is no date
BirthdayTexts == {<<FALSE, FALSE>>, <<TRUE, TRUE>>, <<TRUE, FALSE>>}

\* the birthday is edited in the settings tab: the text is stored as typed
\* (no re-render)
SetBirthday(b) ==
    /\ pc = "view"
    /\ <<hasBirthday, birthdayParses>> # b
    /\ hasBirthday' = b[1]
    /\ birthdayParses' = b[2]
    /\ UNCHANGED <<viewState, corruptPeriod, listeners, resizeHandler, timerVars,
                   debounceVars, renders, docTooltips, staleRenders, content, rejections>>
    /\ UNCHANGED <<paintVars, indexVars, ageVars, miniVars, utilVars>>

\* onClose: removes this.resizeHandler from window, clears the timer of
\* this.resizeTimeout, removes the tooltips from the document
\* (this.scrollHandler is never assigned)
onClose ==
    /\ pc = "view"
    /\ viewState = "open"
    /\ viewState' = "closed"
    /\ IF resizeHandler # 0
       THEN /\ listeners' = listeners \ {resizeHandler}
            /\ resizeHandler' = 0
       ELSE UNCHANGED <<listeners, resizeHandler>>
    /\ IF resizeTimeout # 0
       THEN /\ timers' = {t \in timers : t.id # resizeTimeout}
            /\ resizeTimeout' = 0
            /\ lastResize' = 0 - 1
       ELSE UNCHANGED <<timers, resizeTimeout, lastResize>>
    /\ docTooltips' = FALSE
    /\ UNCHANGED <<settingVars, timerCount, clock, timerRenders, renders, staleRenders,
                   content, rejections>>
    /\ UNCHANGED <<paintVars, indexVars, ageVars, miniVars, utilVars>>

InitView ==
    /\ pc = "view"
    /\ OthersIdle
    /\ UtilIdle
    /\ viewState = "new"
    /\ \E b \in BirthdayTexts : hasBirthday = b[1] /\ birthdayParses = b[2]
    /\ corruptPeriod \in BOOLEAN
    /\ content = "none"
    /\ rejections = 0
    /\ listeners = {}
    /\ resizeHandler = 0
    /\ resizeTimeout = 0
    /\ timers = {}
    /\ timerCount = 0
    /\ clock = 0
    /\ lastResize = 0 - 1
    /\ timerRenders = 0
    /\ renders = 0
    /\ docTooltips = FALSE
    /\ staleRenders = 0

NextView ==
    \/ ViewOpen
    \/ HeaderClick
    \/ WindowResize
    \/ \E t \in timers : TimerFires(t)
    \/ \E dt \in Gaps : Tick(dt)
    \/ ShowTooltip
    \/ \E b \in BirthdayTexts : SetBirthday(b)
    \/ onClose

SpecView == InitView /\ [][NextView]_vars

\* C10: once the view is closed, no resize listener of the view is left on
\* the window, no debounce timer is pending and no run of onOpen has started
\* since the close.
C10_ClosedIsQuiet ==
    viewState = "closed" => (listeners = {} /\ timers = {} /\ staleRenders = 0)

\* C14: a run of onOpen with no birthday, or with a birthday that is no valid
\* date, leaves the inline message and produces no grid and no listener.
C14_RenderPrecondition ==
    [][ (renders' = renders + 1 /\ (~hasBirthday \/ ~birthdayParses)) =>
          (content' = "message" /\ listeners' = listeners) ]_vars

\* C15: a run of onOpen during which an exception is raised (a period entry
\* without an end field) ends with the inline message and does not reject.
C15_RenderFallback ==
    [][ (renders' = renders + 1 /\ hasBirthday /\ corruptPeriod) =>
          (content' = "message" /\ rejections' = rejections) ]_vars

\* C11: at most one re-render timer is pending at any time; while a resize is
\* owed its re-render exactly one timer is pending, due 150 ms after the last
\* resize event; a timer re-render starts 150 ms after the last resize event,
\* is the only one since that event and leaves no timer pending.
C11_Debounce ==
    /\ [](Cardinality(timers) <= 1)
    /\ []((pc = "view" /\ lastResize >= 0 /\ timerRenders = 0)
            => (Cardinality(timers) = 1
                /\ \A t \in timers : t.due = lastResize + 150))
    /\ [][timerRenders' = timerRenders + 1 =>
            (clock = lastResize + 150 /\ timerRenders = 0 /\ timers' = {})]_vars

\* after the view has re-rendered, a burst of two resize events at most 100 ms
\* apart, each run by several listeners, has caused its one re-render, 150 ms
\* after the second event
C11_Witness ==
    /\ pc = "view"
    /\ Cardinality(listeners) >= 3
    /\ timerRenders = 1
    /\ lastResize >= 100
    /\ clock = lastResize + 150
    /\ timers = {}
    /\ timerCount >= 4

----------------------------------------------------------------------------
(* LifeGridPlugin.loadSettings and the settings tab.  A JSON value is a     *)
(* record [kind, str, num, whole]; a string is a sequence of characters     *)

Absent == [kind |-> "absent", str |-> <<>>, num |-> 0, whole |-> TRUE]
JNull == [kind |-> "null", str |-> <<>>, num |-> 0, whole |-> TRUE]
JStr(chars) == [kind |-> "string", str |-> chars, num |-> 0, whole |-> TRUE]
JNum(n) == [kind |-> "number", str |-> <<>>, num |-> n, whole |-> TRUE]
\* a number between n and n + 1
JFrac(n) == [kind |-> "number", str |-> <<>>, num |-> n, whole |-> FALSE]
\* an array of n period entries
JArray(n) == [kind |-> "array", str |-> <<>>, num |-> n, whole |-> TRUE]

DEFAULT_SETTINGS ==
    [birthday |-> JStr(<<>>), maxAge |-> JNum(95), periods |-> JArray(0)]

\* birthday texts: a date, a date in another notation, nothing
BirthdayStrings ==
    { <<"1", "9", "9", "0", "-", "0", "5", "-", "1", "5">>,
      <<"1", "5", "/", "0", "5", "/", "1", "9", "9", "0">>,
      <<>> }

\* the contents data.json can have
StoredFiles ==
    [ birthday : {Absent} \cup {JStr(t) : t \in BirthdayStrings},
      maxAge : {Absent, JNum(40), JNum(0), JNum(151), JFrac(1), JStr(<<"a">>)},
      periods : {Absent, JArray(2), JStr(<<"a">>), JNull} ]

\* Object.assign({}, DEFAULT_SETTINGS, await this.loadData()): every property
\* present in the stored data replaces the default
loadSettings(data) ==
    [f \in DOMAIN DEFAULT_SETTINGS |->
        IF data[f].kind = "absent" THEN DEFAULT_SETTINGS[f] ELSE data[f]]

\* onload: await this.loadSettings()
LoadSettings ==
    /\ pc = "settings"
    /\ lastOp = "none"
    /\ settings' = loadSettings(stored)
    /\ lastOp' = "load"
    /\ UNCHANGED <<pc, stored, pathVars, hoverVars, drawVars, helperVars>>
    /\ UNCHANGED <<config, i, d, paintArray, ri, row, col, clickableDays, dayToRect,
                   yearData, dayInfo,
                   tooltipText>>
    /\ UNCHANGED <<indexVars, ageVars, miniVars, viewVars>>

\* the birthday text field: the text is stored as typed, then saveSettings
EditBirthday(text) ==
    /\ pc = "settings"
    /\ lastOp # "none"
    /\ settings' = [settings EXCEPT !.birthday = JStr(text)]
    /\ stored' = settings'
    /\ lastOp' = "edit"
    /\ UNCHANGED <<pc, pathVars, hoverVars, drawVars, helperVars>>
    /\ UNCHANGED <<config, i, d, paintArray, ri, row, col, clickableDays, dayToRect,
                   yearData, dayInfo,
                   tooltipText>>
    /\ UNCHANGED <<indexVars, ageVars, miniVars, viewVars>>

\* the maximum age text field: parseInt(value) is stored only when it is a
\* number above 0 and at most 150
EditMaxAge(n) ==
    /\ pc = "settings"
    /\ lastOp # "none"
    /\ IF n > 0 /\ n <= 150
       THEN /\ settings' = [settings EXCEPT !.maxAge = JNum(n)]
            /\ stored' = settings'
            /\ lastOp' = "edit"
       ELSE UNCHANGED <<settings, stored, lastOp>>
    /\ UNCHANGED <<pc, pathVars, hoverVars, drawVars, helperVars>>
    /\ UNCHANGED <<config, i, d, paintArray, ri, row, col, clickableDays, dayToRect,
                   yearData, dayInfo,
                   tooltipText>>
    /\ UNCHANGED <<indexVars, ageVars, miniVars, viewVars>>

\* the button that adds a period: a missing (falsy) periods value becomes
\* [] first, then an entry is pushed and saveSettings runs; on a stored value
\* that is no array push is not a function and the handler throws
AddPeriod ==
    /\ pc = "settings"
    /\ lastOp # "none"
    /\ settings.periods.kind = "array" => settings.periods.num < MaxPeriods
    /\ IF settings.periods.kind \in {"absent", "null"}
       THEN /\ settings' = [settings EXCEPT !.periods = JArray(1)]
            /\ stored' = settings'
            /\ lastOp' = "edit"
       ELSE IF settings.periods.kind = "array"
       THEN /\ settings' = [settings EXCEPT !.periods = JArray(settings.periods.num + 1)]
            /\ stored' = settings'
            /\ lastOp' = "edit"
       ELSE UNCHANGED <<settings, stored, lastOp>>
    /\ UNCHANGED <<pc, pathVars, hoverVars, drawVars, helperVars>>
    /\ UNCHANGED <<config, i, d, paintArray, ri, row, col, clickableDays, dayToRect,
                   yearData, dayInfo,
                   tooltipText>>
    /\ UNCHANGED <<indexVars, ageVars, miniVars, viewVars>>

InitSettings ==
    /\ pc = "settings"
    /\ OthersIdle
    /\ ViewIdle
    /\ stored \in StoredFiles
    /\ settings = <<>>
    /\ lastOp = "none"
    /\ dailyNoteFolder = <<>>
    /\ dateString = <<>>
    /\ filePath = NoPath
    /\ HoverIdle
    /\ DrawIdle
    /\ ClickIdle
    /\ FormatIdle
    /\ BatchIdle

NextSettings ==
    \/ LoadSettings
    \/ \E text \in BirthdayStrings : EditBirthday(text)
    \/ \E n \in {0, 50, 151} : EditMaxAge(n)
    \/ AddPeriod

SpecSettings == InitSettings /\ [][NextSettings]_vars

Digits == {"0", "1", "2", "3", "4", "5", "6", "7", "8", "9"}

\* the text matches ^\d{4}-\d{2}-\d{2}$
IsYMD(t) ==
    /\ Len(t) = 10
    /\ \A k \in {1, 2, 3, 4, 6, 7, 9, 10} : t[k] \in Digits
    /\ t[5] = "-"
    /\ t[8] = "-"

\* C17: the settings held right after loadSettings have a birthday that
\* matches YYYY-MM-DD or is the default, a maxAge that is an integer in
\* 1..150 and periods that are an array.
C17_LoadedSettingsValid ==
    lastOp = "load" =>
        /\ settings.birthday.kind = "string"
        /\ IsYMD(settings.birthday.str) \/ settings.birthday = DEFAULT_SETTINGS.birthday
        /\ settings.maxAge.kind = "number"
        /\ settings.maxAge.whole
        /\ settings.maxAge.num >= 1
        /\ settings.maxAge.num <= 150
        /\ settings.periods.kind = "array"

----------------------------------------------------------------------------
(* getDailyNoteFilePath; strings are sequences of characters                *)

Letters ==
    {"a", "b", "c", "d", "e", "f", "g", "h", "i", "j", "k", "l", "m", "n", "o", "p", "q",
     "r", "s", "t", "u", "v", "w", "x", "y", "z", "A", "B", "C", "D", "E", "F", "G", "H",
     "I", "J", "K", "L", "M", "N", "O", "P", "Q", "R", "S", "T", "U", "V", "W", "X", "Y",
     "Z"}

\* the characters of [a-zA-Z0-9\-_]
SafeChars == Letters \cup Digits \cup {"-", "_"}

\* dateString.replace(/[^a-zA-Z0-9\-_]/g, "")
StripUnsafe(str) == SelectSeq(str, LAMBDA c : c \in SafeChars)

\* str.replace(/\.\./g, ""): the matches are taken from left to right and do
\* not overlap
RECURSIVE RemoveDotDot(_)
RemoveDotDot(str) ==
    IF Len(str) < 2 THEN str
    ELSE IF str[1] = "." /\ str[2] = "." THEN RemoveDotDot(SubSeq(str, 3, Len(str)))
    ELSE <<str[1]>> \o RemoveDotDot(Tail(str))

\* str.replace(/\/+/g, "/")
RECURSIVE CollapseSlashes(_)
CollapseSlashes(str) ==
    IF Len(str) < 2 THEN str
    ELSE IF str[1] = "/" /\ str[2] = "/" THEN CollapseSlashes(Tail(str))
    ELSE <<str[1]>> \o CollapseSlashes(Tail(str))

DotMd == <<".", "m", "d">>

\* the path built from the arguments as they are
getDailyNoteFilePath_Unsanitized(date, folder) ==
    IF folder = <<>> \/ folder = <<"/">>
    THEN date \o DotMd
    ELSE (IF folder[Len(folder)] = "/" THEN folder ELSE folder \o <<"/">>) \o date \o DotMd

getDailyNoteFilePath(date, folder) ==
    LET sanitizedDate == StripUnsafe(date)
        sanitizedFolder == CollapseSlashes(RemoveDotDot(folder))
        folderPath == IF sanitizedFolder # <<>> /\ sanitizedFolder[Len(sanitizedFolder)] = "/"
                      THEN sanitizedFolder
                      ELSE sanitizedFolder \o <<"/">>
    IN  IF folder = <<>> \/ folder = <<"/">>
        THEN sanitizedDate \o DotMd
        ELSE folderPath \o sanitizedDate \o DotMd

\* longest folder text and longest date text
MaxFolderLen == 4
MaxDateLen == 3

\* all texts over an alphabet up to a length
Texts(alphabet, n) == UNION {[1..k -> alphabet] : k \in 0..n}

FolderStrings == Texts({"a", ".", "/"}, MaxFolderLen)
DateStrings == Texts({"1", "-", ".", "/"}, MaxDateLen)

\* a note is created for a day: the path is built from the day's key and the
\* folder of the settings
CreateNotePath(date) ==
    /\ pc = "path"
    /\ filePath = NoPath
    /\ dateString' = date
    /\ filePath' = getDailyNoteFilePath(date, dailyNoteFolder)
    /\ UNCHANGED <<pc, dailyNoteFolder, pluginVars, hoverVars, drawVars, helperVars>>
    /\ UNCHANGED <<config, i, d, paintArray, ri, row, col, clickableDays, dayToRect,
                   yearData, dayInfo,
                   tooltipText>>
    /\ UNCHANGED <<indexVars, ageVars, miniVars, viewVars>>

InitPath ==
    /\ pc = "path"
    /\ OthersIdle
    /\ ViewIdle
    /\ stored = <<>>
    /\ settings = <<>>
    /\ lastOp = "none"
    /\ dailyNoteFolder \in FolderStrings
    /\ dateString = <<>>
    /\ filePath = NoPath
    /\ HoverIdle
    /\ DrawIdle
    /\ ClickIdle
    /\ FormatIdle
    /\ BatchIdle

NextPath == \E date \in DateStrings : CreateNotePath(date)

SpecPath == InitPath /\ [][NextPath]_vars

\* the part of a path after its last "/"
FileName(path) ==
    LET slashes == {k \in 1..Len(path) : path[k] = "/"}
        last == IF slashes = {} THEN 0 ELSE CHOOSE k \in slashes : \A j \in slashes : j <= k
    IN  SubSeq(path, last + 1, Len(path))

\* C18: the path returned by getDailyNoteFilePath holds no ".." and no "//",
\* and its file name is made of alphanumerics, "-" and "_" followed by ".md".
C18_PathSanitized ==
    filePath # NoPath =>
        /\ \A k \in 1..(Len(filePath) - 1) :
              /\ ~(filePath[k] = "." /\ filePath[k + 1] = ".")
              /\ ~(filePath[k] = "/" /\ filePath[k + 1] = "/")
        /\ LET name == FileName(filePath)
           IN  /\ Len(name) >= 3
               /\ SubSeq(name, Len(name) - 2, Len(name)) = DotMd
               /\ \A k \in 1..(Len(name) - 3) : name[k] \in SafeChars

\* a folder with ".." and a date key with "/" and "." gave a clean path
C18_Witness ==
    /\ dailyNoteFolder = <<".", ".", "/", "a">>
    /\ dateString = <<"1", "/", ".">>
    /\ filePath = <<"/", "a", "/", "1", ".", "m", "d">>

----------------------------------------------------------------------------
(* The tooltip of the main grid: mouseEventHandler and mouseleaveHandler    *)

\* tooltip elements created in one modelled pass
MaxTooltips == 3

\* lastHoveredDay = null
NoDay == <<>>

\* the clickable day of the n-th day item, laid out at (r, c) as renderMainGrid
\* does
GridDay(n, r, c, isEvent) ==
    [date |-> <<1990, 1, n>>,
     cx |-> c * (squareSize + gap) + gap + squareSize \div 2,
     cy |-> r * (squareSize + gap) + gap + squareSize \div 2,
     radius |-> IF isEvent THEN EventRadius ELSE RegularRadius,
     color |-> NoColor]

\* four days of a rendered grid: two in one bucket of the index, an event day
\* in the next bucket, and one in the row below
HoverGrid ==
    <<GridDay(1, 0, 1, FALSE), GridDay(2, 0, 2, FALSE), GridDay(3, 0, 3, TRUE),
      GridDay(4, 1, 2, FALSE)>>

\* the index after addToSpatialIndex of the first n days
RECURSIVE BuildIndex(_, _)
BuildIndex(days, n) ==
    IF n = 0 THEN EmptyIndex
    ELSE SpatialAdd(BuildIndex(days, n - 1), GRID_CELL_SIZE, days[n])

\* calculatedWidth of a grid of four days per row
HoverSvgWidth == 4 * (squareSize + gap) + gap

\* pointer positions: centres, the rim of the hit areas from inside and from
\* outside, the space between days, and far from every day
PointerXs ==
    {31250, 48750, 48750 + 5598, 48750 + 5599, 57500, 66250 - 5713, 66250 - 5712, 66250,
     250000}
PointerYs == {13750, 13750 + 5598, 22500, 31250, 250000}

\* dist <= day.radius * 1.2, compared on the squares; a point further than
\* radius * 1.2 along one axis is outside
InHitArea(day, mx, my) ==
    LET dx == IF mx >= day.cx THEN mx - day.cx ELSE day.cx - mx
        dy == IF my >= day.cy THEN my - day.cy ELSE day.cy - my
    IN  /\ 5 * dx <= 6 * day.radius
        /\ 5 * dy <= 6 * day.radius
        /\ 25 * (dx * dx + dy * dy) <= 36 * day.radius * day.radius

\* style.left and style.top of the tooltip for a pointer at (clientX, clientY);
\* the svg is at the origin of the viewport
TooltipPosition(clientX, clientY) ==
    LET svgMidX == HoverSvgWidth \div 2
        tooltipWidth == 200000
    IN  [left |-> IF clientX > svgMidX THEN clientX - tooltipWidth - 16000
                  ELSE clientX + 12000,
         top |-> clientY + 8000]

\* element.remove()
Detach(body, id) == [k \in DOMAIN body \ {id} |-> body[k]]

\* document.body.appendChild(tooltip)
Attach(body, id, pos) == [k \in DOMAIN body \cup {id} |-> IF k = id THEN pos ELSE body[k]]

\* a handler that leaves the old tooltip in the document when a new day is hit
mouseEventHandler_KeepsOld(mx, my) ==
    /\ pc = "hover"
    /\ LET nearbyCells == getNearbyCells(spatialIndex, cellSize, mx, my)
           hits == {k \in 1..Len(nearbyCells) : InHitArea(nearbyCells[k], mx, my)}
           first == CHOOSE k \in hits : \A j \in hits : k <= j
       IN  IF hits = {}
           THEN IF currentTooltip # 0
                THEN /\ bodyTooltips' = Detach(bodyTooltips, currentTooltip)
                     /\ currentTooltip' = 0
                     /\ lastHoveredDay' = NoDay
                     /\ UNCHANGED tooltipCount
                ELSE UNCHANGED <<currentTooltip, lastHoveredDay, bodyTooltips, tooltipCount>>
           ELSE IF nearbyCells[first].date = lastHoveredDay
           THEN /\ bodyTooltips' = IF currentTooltip \in DOMAIN bodyTooltips
                                   THEN Attach(bodyTooltips, currentTooltip,
                                               TooltipPosition(mx, my))
                                   ELSE bodyTooltips
                /\ UNCHANGED <<currentTooltip, lastHoveredDay, tooltipCount>>
           ELSE /\ tooltipCount < MaxTooltips
                /\ lastHoveredDay' = nearbyCells[first].date
                /\ tooltipCount' = tooltipCount + 1
                /\ bodyTooltips' = Attach(bodyTooltips, tooltipCount + 1,
                                          TooltipPosition(mx, my))
                /\ currentTooltip' = tooltipCount + 1
    /\ pointer' = <<mx, my>>
    /\ lastEvent' = "move"
    /\ UNCHANGED <<paintVars, indexVars, ageVars, miniVars, viewVars, pluginVars, pathVars,
                 drawVars, helperVars>>

\* mouseEventHandler, for a mousemove at (mx, my) of the svg
mouseEventHandler(mx, my) ==
    /\ pc = "hover"
    /\ LET nearbyCells == getNearbyCells(spatialIndex, cellSize, mx, my)
           hits == {k \in 1..Len(nearbyCells) : InHitArea(nearbyCells[k], mx, my)}
           first == CHOOSE k \in hits : \A j \in hits : k <= j
       IN  IF hits = {}
           THEN IF currentTooltip # 0
                THEN /\ bodyTooltips' = Detach(bodyTooltips, currentTooltip)
                     /\ currentTooltip' = 0
                     /\ lastHoveredDay' = NoDay
                     /\ UNCHANGED tooltipCount
                ELSE UNCHANGED <<currentTooltip, lastHoveredDay, bodyTooltips, tooltipCount>>
           ELSE IF nearbyCells[first].date = lastHoveredDay
           THEN /\ bodyTooltips' = IF currentTooltip \in DOMAIN bodyTooltips
                                   THEN Attach(bodyTooltips, currentTooltip,
                                               TooltipPosition(mx, my))
                                   ELSE bodyTooltips
                /\ UNCHANGED <<currentTooltip, lastHoveredDay, tooltipCount>>
           ELSE /\ tooltipCount < MaxTooltips
                /\ lastHoveredDay' = nearbyCells[first].date
                /\ tooltipCount' = tooltipCount + 1
                /\ bodyTooltips' = Attach(Detach(bodyTooltips, currentTooltip),
                                          tooltipCount + 1, TooltipPosition(mx, my))
                /\ currentTooltip' = tooltipCount + 1
    /\ pointer' = <<mx, my>>
    /\ lastEvent' = "move"
    /\ UNCHANGED <<paintVars, indexVars, ageVars, miniVars, viewVars, pluginVars, pathVars,
                 drawVars, helperVars>>

\* the mouseenter listener of the attached tooltip: the pointer reached it
tooltipMouseEnter ==
    /\ pc = "hover"
    /\ currentTooltip \in DOMAIN bodyTooltips
    /\ bodyTooltips' = Detach(bodyTooltips, currentTooltip)
    /\ currentTooltip' = 0
    /\ lastHoveredDay' = NoDay
    /\ lastEvent' = "enter"
    /\ UNCHANGED <<pointer, tooltipCount>>
    /\ UNCHANGED <<paintVars, indexVars, ageVars, miniVars, viewVars, pluginVars, pathVars,
                 drawVars, helperVars>>

\* mouseleaveHandler
mouseleaveHandler ==
    /\ pc = "hover"
    /\ lastEvent # "leave"
    /\ IF currentTooltip # 0
       THEN /\ bodyTooltips' = Detach(bodyTooltips, currentTooltip)
            /\ currentTooltip' = 0
            /\ lastHoveredDay' = NoDay
       ELSE UNCHANGED <<currentTooltip, lastHoveredDay, bodyTooltips>>
    /\ pointer' = <<>>
    /\ lastEvent' = "leave"
    /\ UNCHANGED tooltipCount
    /\ UNCHANGED <<paintVars, indexVars, ageVars, miniVars, viewVars, pluginVars, pathVars,
                 drawVars, helperVars>>

\* the pass has rendered HoverGrid and registered the handlers
InitHover ==
    /\ pc = "hover"
    /\ config = <<>>
    /\ i = 0
    /\ d = <<>>
    /\ paintArray = <<>>
    /\ ri = 0
    /\ row = 0
    /\ col = 0
    /\ clickableDays = HoverGrid
    /\ dayToRect = <<>>
    /\ yearData = <<>>
    /\ dayInfo = NoInfo
    /\ tooltipText = NoText
    /\ spatialIndex = BuildIndex(HoverGrid, Len(HoverGrid))
    /\ cellSize = GRID_CELL_SIZE
    /\ nearby = <<>>
    /\ AgeIdle
    /\ MiniIdle
    /\ ViewIdle
    /\ stored = <<>>
    /\ settings = <<>>
    /\ lastOp = "none"
    /\ dailyNoteFolder = <<>>
    /\ dateString = <<>>
    /\ filePath = NoPath
    /\ HoverIdle
    /\ DrawIdle
    /\ ClickIdle
    /\ FormatIdle
    /\ BatchIdle

NextHover ==
    \/ \E mx \in PointerXs, my \in PointerYs : mouseEventHandler(mx, my)
    \/ tooltipMouseEnter
    \/ mouseleaveHandler

SpecHover == InitHover /\ [][NextHover]_vars

\* the days whose hit area holds the point
DaysHit(p) == {k \in 1..Len(clickableDays) : InHitArea(clickableDays[k], p[1], p[2])}

\* C19: after a pointer move is handled, a tooltip is attached and
\* lastHoveredDay is day k exactly when the pointer is within radius x 1.2 of
\* k's centre, and with no day hit there is no tooltip and lastHoveredDay is
\* null; staying on a day keeps its tooltip element, repositioned; moving to
\* another day removes the old element and attaches a new one; at most one
\* grid tooltip is attached at any time.
C19_HoverMachine ==
    [][ /\ Cardinality(DOMAIN bodyTooltips') <= 1
        /\ lastEvent' = "move" =>
             LET hit == DaysHit(pointer')
             IN  /\ hit = {} => /\ DOMAIN bodyTooltips' = {}
                                /\ currentTooltip' = 0
                                /\ lastHoveredDay' = NoDay
                 /\ \A k \in 1..Len(clickableDays) :
                       (k \in hit) <=> /\ lastHoveredDay' = clickableDays[k].date
                                       /\ DOMAIN bodyTooltips' = {currentTooltip'}
                 /\ (hit # {} /\ lastHoveredDay' = lastHoveredDay) =>
                       /\ currentTooltip' = currentTooltip
                       /\ bodyTooltips'[currentTooltip'] = TooltipPosition(pointer'[1], pointer'[2])
                 /\ (hit # {} /\ lastHoveredDay # NoDay /\ lastHoveredDay' # lastHoveredDay) =>
                       /\ currentTooltip' # currentTooltip
                       /\ currentTooltip \notin DOMAIN bodyTooltips' ]_vars

\* the pointer is on the rim of the second day, whose tooltip replaced that of
\* another day and has been repositioned since
C19_Witness ==
    /\ pc = "hover"
    /\ lastEvent = "move"
    /\ pointer = <<48750 + 5598, 13750>>
    /\ lastHoveredDay = <<1990, 1, 2>>
    /\ currentTooltip = 2
    /\ DOMAIN bodyTooltips = {2}
    /\ bodyTooltips[2] = TooltipPosition(48750 + 5598, 13750)

----------------------------------------------------------------------------
(* The structures left by a render pass                                     *)

\* C21: after a render pass every DayMarker has exactly one entry in the
\* spatial index, in the bucket (floor(cx / cellSize), floor(cy / cellSize))
\* of its centre, and an entry under its date key in dayToRect; the index
\* holds as many entries as the plan has DayMarkers.
C21_OneEntryPerDay ==
    pc = "done" =>
        /\ Len(clickableDays) = Cardinality(DayIdx)
        /\ IndexSize(spatialIndex) = Cardinality(DayIdx)
        /\ \A key \in DOMAIN spatialIndex : \A n \in 1..Len(spatialIndex[key]) :
              key = <<Bucket(spatialIndex[key][n].cx, cellSize),
                      Bucket(spatialIndex[key][n].cy, cellSize)>>
        /\ \A k \in DayIdx :
              LET date == paintArray[k].date
                  days == {n \in 1..Len(clickableDays) : clickableDays[n].date = date}
              IN  /\ Cardinality(days) = 1
                  /\ \A n \in days :
                        LET day == clickableDays[n]
                            cell == Cell(spatialIndex, Bucket(day.cx, cellSize),
                                         Bucket(day.cy, cellSize))
                        IN  /\ Cardinality({m \in 1..Len(cell) : cell[m].date = date}) = 1
                            /\ day \in Elems(cell)
                            /\ date \in DOMAIN dayToRect
                            /\ dayToRect[date] = [cx |-> day.cx, cy |-> day.cy,
                                                  radius |-> day.radius]

\* a pass of more than 300 days, spread over several buckets, some of them
\* holding several days
C21_Witness ==
    /\ pc = "done"
    /\ Cardinality(DayIdx) > 300
    /\ Cardinality(DOMAIN spatialIndex) > 4
    /\ \E key \in DOMAIN spatialIndex : Len(spatialIndex[key]) > 1

----------------------------------------------------------------------------
(* The layout of the grid for containers of several widths                  *)

\* container.clientWidth: 4, 5, 38 and 187 days per row
LayoutWidths == {200000, 215000, 800000, 3400000}

LayoutBirthdays == {<<1990, 7, 4>>, <<1992, 1, 1>>}

LayoutConfigs ==
    { [MakeConfig(b, a, <<1990, 12, 31>>, <<>>, {}) EXCEPT !.containerWidth = w] :
        b \in LayoutBirthdays, a \in 1..MaxAge, w \in LayoutWidths }

InitLayout ==
    /\ config \in LayoutConfigs
    /\ pc = "build"
    /\ i = 0
    /\ d = config.startDate
    /\ paintArray = <<>>
    /\ ri = 0
    /\ row = 0
    /\ col = 0
    /\ clickableDays = <<>>
    /\ dayToRect = <<>>
    /\ yearData = <<>>
    /\ dayInfo = NoInfo
    /\ tooltipText = NoText
    /\ spatialIndex = EmptyIndex
    /\ cellSize = GRID_CELL_SIZE
    /\ nearby = <<>>
    /\ AgeIdle
    /\ MiniIdle
    /\ ViewIdle
    /\ UtilIdle

SpecLayout == InitLayout /\ [][NextPaint]_vars

\* C22: with daysPerRow at least the header span, every item placed by the
\* layout lies in columns [0, daysPerRow) of one row (a day in one column, a
\* year header in headerSquares consecutive columns), at or after the cursor
\* left by the items before it, which all lie before that cursor: the cells
\* are assigned in strictly increasing row-major order and never twice.
C22_LayoutCursor ==
    [][ (ri' = ri + 1 /\ DaysPerRow(config) >= HEADER_SQUARES) =>
          LET item == paintArray[ri']
              span == IF item.type = "year" THEN HEADER_SQUARES ELSE 1
              first == col' - span
          IN  /\ first >= 0
              /\ col' <= DaysPerRow(config)
              /\ col <= DaysPerRow(config)
              /\ \/ row' = row /\ first >= col
                 \/ row' > row
              /\ item.type = "day" =>
                    LET day == clickableDays'[Len(clickableDays')]
                    IN  /\ day.date = item.date
                        /\ day.cx = first * (squareSize + gap) + gap + squareSize \div 2
                        /\ day.cy = row' * (squareSize + gap) + gap + squareSize \div 2
              /\ item.type = "year" =>
                    yearData'[Len(yearData')] = [row |-> row', col |-> first, year |-> item.year]
      ]_vars

\* a year header that did not fit in the rest of its row was moved to the next
\* row, in a grid of five days per row
C22_Witness ==
    /\ pc = "done"
    /\ DaysPerRow(config) = 5
    /\ \E k \in 2..Len(yearData) : yearData[k].col = 0 /\ yearData[k].row > 0
    /\ \E n \in 1..Len(clickableDays) :
          clickableDays[n].cx = 4 * (squareSize + gap) + gap + squareSize \div 2

\* createLifeGridSVG: maxRows = years * Math.ceil(366 / (daysPerRow - headerSquares))
maxRows(cfg) ==
    LET perRow == DaysPerRow(cfg) - HEADER_SQUARES
    IN  cfg.years * ((366 + perRow - 1) \div perRow)

\* C28: with daysPerRow greater than the header span, every item placed lies
\* in one of the rows 0 .. maxRows - 1 that size the canvas.
C28_RowsWithinCanvas ==
    (ri >= 1 /\ DaysPerRow(config) > HEADER_SQUARES) => row < maxRows(config)

----------------------------------------------------------------------------
(* The text of the tooltip of the main grid                                 *)

\* C23, as stated: the text is age and date, followed by the event name when
\* the note of the day declares one, otherwise by the label of the period of
\* the day when it lies in a labelled period.
C23_StatedText ==
    dayInfo # NoInfo =>
        /\ tooltipText.date = dayInfo.date
        /\ tooltipText.age = calculateAge(config.startDate, ParseDate(dayInfo.date))
        /\ tooltipText.suffix = IF dayInfo.eventName # "" THEN dayInfo.eventName
                                ELSE dayInfo.periodLabel

\* C23, amended: the text is age and date, followed by the event name when the
\* note of the day declares one; a day with a note and no event name shows age
\* and date only, also inside a labelled period; a day without a note is
\* followed by the label of its period when it lies in a labelled period.
C23_TooltipText ==
    dayInfo # NoInfo =>
        /\ tooltipText.date = dayInfo.date
        /\ tooltipText.age = calculateAge(config.startDate, ParseDate(dayInfo.date))
        /\ tooltipText.suffix = IF dayInfo.eventName # "" THEN dayInfo.eventName
                                ELSE IF dayInfo.hasNote THEN ""
                                ELSE dayInfo.periodLabel

\* the tooltip of a day with a note and no event name, inside a labelled
\* period, shows age and date only
C23_Witness ==
    /\ dayInfo # NoInfo
    /\ dayInfo.hasNote
    /\ dayInfo.eventName = ""
    /\ dayInfo.periodLabel # ""
    /\ tooltipText.suffix = ""
    /\ tooltipText.age > 0

----------------------------------------------------------------------------
(* createMinimapSVG and setupMinimapInteractions: the geometry of the       *)
(* minimap.  A progress p / totalLifeDays is kept as the integer            *)
(* 4 * p over ProgressDen = 1461 * years; a length is kept in units of      *)
(* 1 / ProgressDen of a pixel, so that no rounding is modelled.             *)

\* --life-grid-minimap-vertical-padding, and the height of the minimap, in px
minimapVerticalPadding == 10
minimapHeight == 600
usableHeight == minimapHeight - minimapVerticalPadding * 2
\* Theme.MINIMAP_MIN_HEIGHT, in px
MINIMAP_MIN_HEIGHT == 1

\* totalLifeDays = years * 365.25, times four
ProgressDen(cfg) == 1461 * cfg.years

\* Math.round((date - startDate) / msPerDay)
DaysSinceBirth(cfg, key) == DayNum(ParseDate(key)) - DayNum(cfg.startDate)

\* minimapVerticalPadding + progress * usableHeight
YOf(cfg, progressNum) == minimapVerticalPadding * ProgressDen(cfg) + progressNum * usableHeight

Max(a, b) == IF a >= b THEN a ELSE b
Min(a, b) == IF a <= b THEN a ELSE b

\* Math.max(0, startDaysSinceBirth) / totalLifeDays
startProgress(cfg, period) == 4 * Max(0, DaysSinceBirth(cfg, period.start))

\* Math.min(1, endDaysSinceBirth / totalLifeDays)
endProgress(cfg, period) ==
    LET periodEnd == IF period.end = Present THEN getFormattedDateString(cfg.today)
                     ELSE period.end
    IN  Min(ProgressDen(cfg), 4 * DaysSinceBirth(cfg, periodEnd))

\* startProgress <= 1 && endProgress >= 0
IsDrawn(cfg, period) ==
    /\ startProgress(cfg, period) <= ProgressDen(cfg)
    /\ endProgress(cfg, period) >= 0

\* the band pushed to minimapPeriods for a period that is drawn
BandOf(cfg, period) ==
    LET startY == YOf(cfg, startProgress(cfg, period))
        endY == YOf(cfg, endProgress(cfg, period))
    IN  [period |-> period, startY |-> startY, endY |-> endY,
         height |-> Max(MINIMAP_MIN_HEIGHT * ProgressDen(cfg), endY - startY)]

\* the loop over the periods, up to the n-th
RECURSIVE BuildBands(_, _)
BuildBands(cfg, n) ==
    IF n = 0 THEN <<>>
    ELSE IF IsDrawn(cfg, cfg.periods[n])
    THEN Append(BuildBands(cfg, n - 1), BandOf(cfg, cfg.periods[n]))
    ELSE BuildBands(cfg, n - 1)

\* the day has a day item in the paint plan
DayItemIn(cfg, key) ==
    LET idx == DaysSinceBirth(cfg, key)
    IN  idx >= 0 /\ idx <= TotalDays(cfg) /\ PushesDay(ParseDate(key), idx)

\* collectEvents: the days of the plan whose note has a color and an
\* eventName, in the order of the plan
RECURSIVE EventsOf(_, _)
EventsOf(cfg, files) ==
    IF files = {} THEN <<>>
    ELSE LET f == CHOOSE g \in files :
                     \A h \in files : DayNum(ParseDate(g.basename)) <= DayNum(ParseDate(h.basename))
         IN  <<[date |-> f.basename, color |-> f.color, eventName |-> f.eventName,
                daysSinceBirth |-> DaysSinceBirth(cfg, f.basename)]>>
             \o EventsOf(cfg, files \ {f})

collectEvents(cfg) ==
    EventsOf(cfg, {f \in cfg.files :
                     f.color # NoColor /\ f.eventName # "" /\ DayItemIn(cfg, f.basename)})

\* createMinimapSVG draws the rectangles of the periods and the ticks of the
\* events; setupMinimapInteractions records the same bands and ticks
createMinimapSVG ==
    /\ pc = "draw"
    /\ pc' = "drawn"
    /\ minimapPeriods' = BuildBands(config, Len(config.periods))
    /\ periodRects' = [k \in 1..Len(minimapPeriods') |->
                         [y |-> minimapPeriods'[k].startY, height |-> minimapPeriods'[k].height]]
    /\ minimapEventsWithPosition' =
          LET events == collectEvents(config)
          IN  [k \in 1..Len(events) |->
                 [date |-> events[k].date, daysSinceBirth |-> events[k].daysSinceBirth,
                  y |-> YOf(config, 4 * events[k].daysSinceBirth),
                  height |-> 3 * ProgressDen(config)]]
    /\ UNCHANGED <<hoverY, hoverBands>>
    /\ UNCHANGED <<config, i, d, paintArray, ri, row, col, clickableDays, dayToRect,
                   yearData, dayInfo, tooltipText>>
    /\ UNCHANGED <<indexVars, ageVars, miniVars, viewVars, pluginVars, pathVars, hoverVars, helperVars>>

\* minimapMousemoveHandler, for a pointer in the band column on the top edge
\* (bottom = FALSE) or the bottom edge of the k-th rectangle drawn
minimapMousemoveHandler(k, bottom) ==
    /\ pc = "drawn"
    /\ LET my == IF bottom THEN periodRects[k].y + periodRects[k].height ELSE periodRects[k].y
       IN  /\ hoverY' = my
           /\ hoverBands' = {j \in 1..Len(minimapPeriods) :
                               my >= minimapPeriods[j].startY /\ my <= minimapPeriods[j].endY}
    /\ UNCHANGED <<minimapPeriods, periodRects, minimapEventsWithPosition>>
    /\ UNCHANGED <<paintVars, indexVars, ageVars, miniVars, viewVars, pluginVars, pathVars,
                   hoverVars, helperVars>>

\* a period that ends before it starts
PeriodInverted ==
    [start |-> <<1991, 2, 1>>, end |-> <<1990, 9, 1>>, color |-> <<17, 34, 51>>, label |-> "I"]
\* a period still to come, open ended
PeriodFuture ==
    [start |-> <<1991, 4, 1>>, end |-> Present, color |-> <<17, 34, 51>>, label |-> "F"]
\* a period over before the birthday, and one that starts after the range
PeriodBefore ==
    [start |-> <<1980, 1, 1>>, end |-> <<1985, 1, 1>>, color |-> <<17, 34, 51>>, label |-> "P"]
PeriodAfter ==
    [start |-> <<2000, 1, 1>>, end |-> <<2001, 1, 1>>, color |-> <<17, 34, 51>>, label |-> "Q"]
\* a period of one day
PeriodDay ==
    [start |-> <<1990, 8, 1>>, end |-> <<1990, 8, 1>>, color |-> <<17, 34, 51>>, label |-> "D"]

DrawPeriodLists ==
    {<<PeriodA>>, <<PeriodInverted>>, <<PeriodFuture, PeriodA>>, <<PeriodBefore, PeriodAfter>>,
     <<PeriodDay, PeriodB>>}

DrawBirthdays == {<<1990, 5, 15>>, <<1991, 3, 1>>}

DrawTodays == {<<1990, 12, 31>>, <<1992, 6, 1>>}

\* events on an ordinary day, on the last day of a range of one year from
\* 1990-05-15 and on the last day of a range of one year from 1991-03-01
DrawVault ==
    { Note(<<1990, 8, 2>>, <<170, 187, 204>>, "Wedding"),
      Note(<<1991, 5, 15>>, <<170, 187, 204>>, "Birthday"),
      Note(<<1992, 3, 1>>, <<170, 187, 204>>, "Leap") }

DrawConfigs ==
    { MakeConfig(b, a, t, p, f) :
        b \in DrawBirthdays, a \in 1..MaxAge, t \in DrawTodays, p \in DrawPeriodLists,
        f \in {{}, DrawVault} }

InitDraw ==
    /\ config \in DrawConfigs
    /\ pc = "draw"
    /\ i = 0
    /\ d = <<>>
    /\ paintArray = <<>>
    /\ ri = 0
    /\ row = 0
    /\ col = 0
    /\ clickableDays = <<>>
    /\ dayToRect = <<>>
    /\ yearData = <<>>
    /\ dayInfo = NoInfo
    /\ tooltipText = NoText
    /\ spatialIndex = EmptyIndex
    /\ cellSize = GRID_CELL_SIZE
    /\ nearby = <<>>
    /\ AgeIdle
    /\ MiniIdle
    /\ ViewIdle
    /\ UtilIdle

NextDraw ==
    \/ createMinimapSVG
    \/ \E k \in 1..Len(periodRects), bottom \in BOOLEAN : minimapMousemoveHandler(k, bottom)

SpecDraw == InitDraw /\ [][NextDraw]_vars

\* C24: the proportional position daysSinceBirth / (maxAge x 365.25) of every
\* event of the rendered range lies in [0, 1]: its tick is on the axis.
C24_EventsOnAxis ==
    \A k \in 1..Len(minimapEventsWithPosition) :
        /\ 4 * minimapEventsWithPosition[k].daysSinceBirth >= 0
        /\ 4 * minimapEventsWithPosition[k].daysSinceBirth <= ProgressDen(config)
        /\ minimapEventsWithPosition[k].y >= YOf(config, 0)
        /\ minimapEventsWithPosition[k].y <= YOf(config, ProgressDen(config))

\* C25: every band drawn and recorded has 0 <= startProgress <= endProgress
\* <= 1, that is startY <= endY on the axis, and a pointer on its drawn
\* rectangle hits it.
C25_BandsOrdered ==
    /\ \A k \in 1..Len(minimapPeriods) :
          /\ YOf(config, 0) <= minimapPeriods[k].startY
          /\ minimapPeriods[k].startY <= minimapPeriods[k].endY
          /\ minimapPeriods[k].endY <= YOf(config, ProgressDen(config))
    /\ hoverY >= 0 =>
          \A k \in 1..Len(periodRects) :
              (hoverY >= periodRects[k].y /\ hoverY <= periodRects[k].y + periodRects[k].height)
                  => k \in hoverBands

----------------------------------------------------------------------------
(* The mousedown handler of the main grid: opening and creating notes.      *)
(* A file is named by the date key of its day.                              *)

\* the days that are clicked
ClickDays == {<<1990, 8, 1>>, <<1990, 8, 2>>, <<1990, 8, 3>>}

\* clickHandler, for a mousedown with the given button on the dot of a day.
\* With a path in the lookup the file is opened; without one vault.create is
\* called, which rejects when the file exists, and the new file is opened.
\* A left click opens in the leaf of the grid, which then shows the note; a
\* middle click opens in a new tab.
clickHandler(date, button) ==
    /\ pc = "click"
    /\ gridShown
    /\ dayClicks < MaxClicks
    /\ dayClicks' = dayClicks + 1
    /\ IF date \in dayToFilePath
       THEN /\ gridShown' = IF date \in vaultFiles /\ button = 0 THEN FALSE ELSE gridShown
            /\ UNCHANGED <<vaultFiles, createRequests>>
       ELSE /\ createRequests' = Append(createRequests, date)
            /\ IF date \in vaultFiles
               THEN UNCHANGED <<vaultFiles, gridShown>>
               ELSE /\ vaultFiles' = vaultFiles \cup {date}
                    /\ gridShown' = (button # 0)
    /\ UNCHANGED dayToFilePath
    /\ UNCHANGED <<paintVars, indexVars, ageVars, miniVars, viewVars, pluginVars, pathVars,
                   hoverVars, drawVars, formatVars, batchVars>>

\* the grid is shown again (the view is reopened): onOpen starts a new pass,
\* which reads the files of the vault
ReopenGrid ==
    /\ pc = "click"
    /\ ~gridShown
    /\ gridShown' = TRUE
    /\ dayToFilePath' = vaultFiles
    /\ createRequests' = <<>>
    /\ UNCHANGED <<vaultFiles, dayClicks>>
    /\ UNCHANGED <<paintVars, indexVars, ageVars, miniVars, viewVars, pluginVars, pathVars,
                   hoverVars, drawVars, formatVars, batchVars>>

InitClick ==
    /\ pc = "click"
    /\ OthersIdle
    /\ ViewIdle
    /\ stored = <<>>
    /\ settings = <<>>
    /\ lastOp = "none"
    /\ dailyNoteFolder = <<>>
    /\ dateString = <<>>
    /\ filePath = NoPath
    /\ HoverIdle
    /\ DrawIdle
    /\ vaultFiles \in SUBSET {<<1990, 8, 1>>}
    /\ dayToFilePath = vaultFiles
    /\ createRequests = <<>>
    /\ gridShown = TRUE
    /\ dayClicks = 0
    /\ FormatIdle
    /\ BatchIdle

NextClick ==
    \/ \E date \in ClickDays, button \in {0, 1} : clickHandler(date, button)
    \/ ReopenGrid

SpecClick == InitClick /\ [][NextClick]_vars

\* C26: within one render pass the host is never asked to create the file of
\* the same day twice: once a click has created the note, a later click on
\* the day opens it.
C26_CreatedOnce ==
    \A m, n \in 1..Len(createRequests) : createRequests[m] = createRequests[n] => m = n

----------------------------------------------------------------------------
(* The tooltips of the main grid over re-renders of an open view.           *)

\* this.onOpen() on an open view, from the debounce timer of a resize or
\* from a click on the header: container.empty() removes the svg of the
\* previous pass with its listeners, and the new pass starts with
\* currentTooltip = null and lastHoveredDay = null.  The tooltips are children
\* of document.body, which container.empty() does not reach.
RepaintView ==
    /\ pc = "hover"
    /\ currentTooltip' = 0
    /\ lastHoveredDay' = NoDay
    /\ lastEvent' = "repaint"
    /\ UNCHANGED <<pointer, bodyTooltips, tooltipCount>>
    /\ UNCHANGED <<paintVars, indexVars, ageVars, miniVars, viewVars, pluginVars, pathVars,
                 drawVars, helperVars>>

\* the mouseenter listener of a tooltip left by a previous pass: it removes
\* the element and clears the variables of the closure of that pass
staleTooltipMouseEnter(id) ==
    /\ pc = "hover"
    /\ id \in DOMAIN bodyTooltips
    /\ id # currentTooltip
    /\ bodyTooltips' = Detach(bodyTooltips, id)
    /\ lastEvent' = "enter"
    /\ UNCHANGED <<pointer, currentTooltip, lastHoveredDay, tooltipCount>>
    /\ UNCHANGED <<paintVars, indexVars, ageVars, miniVars, viewVars, pluginVars, pathVars,
                 drawVars, helperVars>>

\* pointer positions: on two days of the grid and away from every day
RepaintXs == {48750, 66250, 250000}
RepaintYs == {13750}

NextTooltip ==
    \/ \E mx \in RepaintXs, my \in RepaintYs : mouseEventHandler(mx, my)
    \/ tooltipMouseEnter
    \/ mouseleaveHandler
    \/ RepaintView
    \/ \E id \in 1..MaxTooltips : staleTooltipMouseEnter(id)

SpecTooltip == InitHover /\ [][NextTooltip]_vars

\* C27: over any sequence of hovers and re-renders at most one tooltip of the
\* main grid is attached to the document, and after a re-render none of the
\* previous pass is.
C27_OneTooltip ==
    /\ Cardinality(DOMAIN bodyTooltips) <= 1
    /\ lastEvent = "repaint" => DOMAIN bodyTooltips = {}

----------------------------------------------------------------------------
(* Creating the note of a day and finding it in the next render:            *)
(* getFormattedDateString, getDailyNoteFilePath, formatToRegex,             *)
(* isInDailyNotesFolder                                                     *)

DigitChars == <<"0", "1", "2", "3", "4", "5", "6", "7", "8", "9">>

\* a number below 100 in two digits
Pad2(n) == <<DigitChars[(n \div 10) + 1], DigitChars[(n % 10) + 1]>>

\* a number below 100 without padding
Unpadded(n) == IF n < 10 THEN <<DigitChars[n + 1]>> ELSE Pad2(n)

\* the text starts with the prefix
StartsWith(str, prefix) ==
    /\ Len(str) >= Len(prefix)
    /\ SubSeq(str, 1, Len(prefix)) = prefix

\* the text without its first n characters
Drop(str, n) == SubSeq(str, n + 1, Len(str))

YYYY == <<"Y", "Y", "Y", "Y">>
YY == <<"Y", "Y">>
MM == <<"M", "M">>
DD == <<"D", "D">>

\* getFormattedDateString with a format: moment(date).format(format), for
\* formats made of YYYY, YY, MM, M, DD, D and characters that are no token
\* of moment
RECURSIVE formatDate(_, _)
formatDate(date, format) ==
    IF format = <<>> THEN <<>>
    ELSE IF StartsWith(format, YYYY)
    THEN Pad2(date[1] \div 100) \o Pad2(date[1] % 100)
             \o formatDate(date, Drop(format, 4))
    ELSE IF StartsWith(format, YY)
    THEN Pad2(date[1] % 100) \o formatDate(date, Drop(format, 2))
    ELSE IF StartsWith(format, MM)
    THEN Pad2(date[2]) \o formatDate(date, Drop(format, 2))
    ELSE IF StartsWith(format, DD)
    THEN Pad2(date[3]) \o formatDate(date, Drop(format, 2))
    ELSE IF format[1] = "M"
    THEN Unpadded(date[2]) \o formatDate(date, Drop(format, 1))
    ELSE IF format[1] = "D"
    THEN Unpadded(date[3]) \o formatDate(date, Drop(format, 1))
    ELSE <<format[1]>> \o formatDate(date, Drop(format, 1))

\* \d{lo,hi}
DigitRun(lo, hi) == [kind |-> "digits", lo |-> lo, hi |-> hi, ch |-> ""]

\* one character, escaped where the pattern needs it
Literal(c) == [kind |-> "char", lo |-> 1, hi |-> 1, ch |-> c]

\* formatToRegex: the pattern between ^ and $ as a sequence of elements.  The
\* replacements of the code run one after the other over the whole text;
\* the text they insert holds no Y, M or D, so scanning from the left with
\* the longer token first gives the same pattern.
RECURSIVE formatToRegex(_)
formatToRegex(format) ==
    IF format = <<>> THEN <<>>
    ELSE IF StartsWith(format, YYYY)
    THEN <<DigitRun(4, 4)>> \o formatToRegex(Drop(format, 4))
    ELSE IF StartsWith(format, YY) \/ StartsWith(format, MM) \/ StartsWith(format, DD)
    THEN <<DigitRun(2, 2)>> \o formatToRegex(Drop(format, 2))
    ELSE IF format[1] \in {"M", "D"}
    THEN <<DigitRun(1, 2)>> \o formatToRegex(Drop(format, 1))
    ELSE <<Literal(format[1])>> \o formatToRegex(Drop(format, 1))

\* str.match(regex) for a pattern anchored at both ends
RECURSIVE RegexMatches(_, _)
RegexMatches(regex, str) ==
    IF regex = <<>> THEN str = <<>>
    ELSE LET e == Head(regex)
         IN  IF e.kind = "char"
             THEN /\ str # <<>>
                  /\ Head(str) = e.ch
                  /\ RegexMatches(Tail(regex), Tail(str))
             ELSE \E n \in e.lo..e.hi :
                      /\ n <= Len(str)
                      /\ \A k \in 1..n : str[k] \in Digits
                      /\ RegexMatches(Tail(regex), Drop(str, n))

\* TFile.basename: the file name without its extension
Basename(path) ==
    LET name == FileName(path)
        dots == {k \in 1..Len(name) : name[k] = "."}
        last == IF dots = {} THEN Len(name) + 1
                ELSE CHOOSE k \in dots : \A j \in dots : j <= k
    IN  SubSeq(name, 1, last - 1)

isInDailyNotesFolder(path, folder) ==
    IF folder = <<>> \/ folder = <<"/">> THEN TRUE
    ELSE LET sanitizedFolder == CollapseSlashes(RemoveDotDot(folder))
             folderPath == IF sanitizedFolder # <<>>
                              /\ sanitizedFolder[Len(sanitizedFolder)] = "/"
                           THEN sanitizedFolder
                           ELSE sanitizedFolder \o <<"/">>
         IN  StartsWith(path, folderPath)

\* the formats of the setting: year, month and day with a separator, in
\* other orders, without padding, with a short year and without separator
NoteFormats ==
    {YYYY \o <<sep>> \o MM \o <<sep>> \o DD : sep \in {"-", ".", "_", "/"}}
        \cup {DD \o <<"-">> \o MM \o <<"-">> \o YYYY,
              YYYY \o <<"-", "M", "-", "D">>,
              YY \o <<"-">> \o MM \o <<"-">> \o DD,
              YYYY \o MM \o DD}

\* the days of the grid
NoteDays == {<<1990, 8, 2>>, <<1990, 11, 23>>, <<2001, 1, 5>>}

NoteFolders == {<<>>, <<"a">>}

\* clickHandler on a day without a note: the path of the new file is built
\* from the date key of the day, and vault.create makes the file
clickNewNote ==
    /\ pc = "create"
    /\ pc' = "created"
    /\ dateString' = formatDate(clickedDay, dailyNoteFormat)
    /\ filePath' = getDailyNoteFilePath(formatDate(clickedDay, dailyNoteFormat),
                                        dailyNoteFolder)
    /\ UNCHANGED <<dailyNoteFolder, dailyNoteFormat, clickedDay, foundNotes>>
    /\ UNCHANGED <<config, i, d, paintArray, ri, row, col, clickableDays, dayToRect,
                   yearData, dayInfo, tooltipText>>
    /\ UNCHANGED <<indexVars, ageVars, miniVars, viewVars, pluginVars, hoverVars, drawVars,
                   clickVars, batchVars>>

\* the next render: the files of the vault (here the created file) that are
\* in the folder and whose basename matches the pattern of the format are
\* the daily notes, under their basename
findDailyNotes ==
    /\ pc = "created"
    /\ pc' = "found"
    /\ foundNotes' = {Basename(file) : file \in
                           {f \in {filePath} :
                               /\ isInDailyNotesFolder(f, dailyNoteFolder)
                               /\ RegexMatches(formatToRegex(dailyNoteFormat), Basename(f))}}
    /\ UNCHANGED <<dailyNoteFormat, clickedDay, pathVars>>
    /\ UNCHANGED <<config, i, d, paintArray, ri, row, col, clickableDays, dayToRect,
                   yearData, dayInfo, tooltipText>>
    /\ UNCHANGED <<indexVars, ageVars, miniVars, viewVars, pluginVars, hoverVars, drawVars,
                   clickVars, batchVars>>

InitNote ==
    /\ pc = "create"
    /\ OthersIdle
    /\ ViewIdle
    /\ stored = <<>>
    /\ settings = <<>>
    /\ lastOp = "none"
    /\ dailyNoteFolder \in NoteFolders
    /\ dateString = <<>>
    /\ filePath = NoPath
    /\ HoverIdle
    /\ DrawIdle
    /\ ClickIdle
    /\ dailyNoteFormat \in NoteFormats
    /\ clickedDay \in NoteDays
    /\ foundNotes = {}
    /\ BatchIdle

NextNote ==
    \/ clickNewNote
    \/ findDailyNotes

SpecNote == InitNote /\ [][NextNote]_vars

\* C29: the file created for a clicked day has the date key of the day as its
\* basename, the basename matches the pattern of the format, and the next
\* render has a note for exactly that day.
C29_RoundTrip ==
    pc = "found" =>
        /\ Basename(filePath) = dateString
        /\ RegexMatches(formatToRegex(dailyNoteFormat), Basename(filePath))
        /\ \A day \in NoteDays :
              formatDate(day, dailyNoteFormat) \in foundNotes <=> day = clickedDay

----------------------------------------------------------------------------
(* Grouping the circles by colour: the key built in renderMainGrid and      *)
(* split in renderCircles                                                   *)

None == <<"n", "o", "n", "e">>

\* `${a}-${b}-${c}`
KeyOf(a, b, c) == a \o <<"-">> \o b \o <<"-">> \o c

\* the stroke of the group of a colour: the border of the style sheet for
\* the default colour, none for every other colour
StrokeOf(sheet, color) ==
    IF color = sheet.squareDefaultColor THEN sheet.squareBorderColor ELSE None

\* the stroke width of the group, as the template writes the number
StrokeWidthOf(sheet, color) ==
    IF color = sheet.squareDefaultColor THEN <<DigitChars[sheet.squareBorderWidth + 1]>>
    ELSE <<"0">>

\* str.split(sep)
RECURSIVE Split(_, _)
Split(str, sep) ==
    LET at == {k \in 1..Len(str) : str[k] = sep}
    IN  IF at = {} THEN <<str>>
        ELSE LET first == CHOOSE k \in at : \A j \in at : k <= j
             IN  <<SubSeq(str, 1, first - 1)>> \o Split(Drop(str, first), sep)

\* const [fill, stroke, strokeWidth] = key.split("-")
SplitKey(key) ==
    LET parts == Split(key, "-")
    IN  [fill |-> parts[1], stroke |-> parts[2], strokeWidth |-> parts[3]]

\* parseInt(text) > 0 for texts without sign and blanks
ParseIntPositive(text) ==
    \E k \in 1..Len(text) :
        /\ \A j \in 1..k : text[j] \in Digits
        /\ text[k] # "0"

\* no attribute set
NoAttribute == <<>>

\* renderMainGrid, the grouping of one day: the key of its group
groupCircle ==
    /\ pc = "group"
    /\ pc' = "grouped"
    /\ colorKey' = KeyOf(dayColor, StrokeOf(css, dayColor), StrokeWidthOf(css, dayColor))
    /\ UNCHANGED <<css, dayColor, pathAttributes>>
    /\ UNCHANGED <<config, i, d, paintArray, ri, row, col, clickableDays, dayToRect,
                   yearData, dayInfo, tooltipText>>
    /\ UNCHANGED <<indexVars, ageVars, miniVars, viewVars, pluginVars, pathVars, hoverVars,
                   drawVars, clickVars, formatVars>>

\* renderCircles, for the group: the key is split and the path gets its fill,
\* and its stroke when there is one of a positive width
renderCircles ==
    /\ pc = "grouped"
    /\ pc' = "painted"
    /\ LET parts == SplitKey(colorKey)
           stroked == parts.stroke # None /\ ParseIntPositive(parts.strokeWidth)
       IN  pathAttributes' =
               [fill |-> parts.fill,
                stroke |-> IF stroked THEN parts.stroke ELSE NoAttribute,
                strokeWidth |-> IF stroked THEN parts.strokeWidth ELSE NoAttribute]
    /\ UNCHANGED <<css, dayColor, colorKey>>
    /\ UNCHANGED <<config, i, d, paintArray, ri, row, col, clickableDays, dayToRect,
                   yearData, dayInfo, tooltipText>>
    /\ UNCHANGED <<indexVars, ageVars, miniVars, viewVars, pluginVars, pathVars, hoverVars,
                   drawVars, clickVars, formatVars>>

\* colours as they are written in hex, by name and as a reference to a
\* variable of the theme
HexDark == <<"#", "2", "3", "2">>
HexRed == <<"#", "f", "0", "0">>
NamedColor == <<"r", "e", "d">>
VarColor == <<"v", "a", "r", "(", "-", "-", "x", ")">>

BatchColors == {HexDark, HexRed, NamedColor, VarColor}
BatchDefaultColors == {HexDark, VarColor}
BatchBorderColors == {HexDark, None, VarColor}
BatchBorderWidths == {0, 1, 2}

InitBatch ==
    /\ pc = "group"
    /\ OthersIdle
    /\ ViewIdle
    /\ stored = <<>>
    /\ settings = <<>>
    /\ lastOp = "none"
    /\ dailyNoteFolder = <<>>
    /\ dateString = <<>>
    /\ filePath = NoPath
    /\ HoverIdle
    /\ DrawIdle
    /\ ClickIdle
    /\ FormatIdle
    /\ css \in [squareDefaultColor : BatchDefaultColors,
                squareBorderColor : BatchBorderColors,
                squareBorderWidth : BatchBorderWidths]
    /\ dayColor \in BatchColors
    /\ colorKey = <<>>
    /\ pathAttributes = <<>>

NextBatch ==
    \/ groupCircle
    \/ renderCircles

SpecBatch == InitBatch /\ [][NextBatch]_vars

\* C30: the key of a group, split in renderCircles, gives back the fill
\* colour, the stroke colour and the stroke width it was built from, and the
\* path of the group is filled with the resolved colour of its days.
C30_KeyRoundTrip ==
    /\ pc \in {"grouped", "painted"} =>
          SplitKey(colorKey) = [fill |-> dayColor,
                                     stroke |-> StrokeOf(css, dayColor),
                                     strokeWidth |-> StrokeWidthOf(css, dayColor)]
    /\ pc = "painted" => pathAttributes.fill = dayColor

====
